---- MODULE Spec2Model ----
(***************************************************************************)
(* OpenDrop game controller: the Tetris game (Tetris.ts), the board engine *)
(* it extends (Game.ts), the shape catalog (Tetromino.ts), the helpers of  *)
(* gameUtils.ts and the frame loop / key handler of Game.svelte.           *)
(*                                                                         *)
(* Arrays are functions over 0..n-1, as in the source.  A Vec is a record  *)
(* [x, y].  A nullable Vec is a sequence of length 0 (null) or 1.          *)
(***************************************************************************)
EXTENDS Integers, Sequences, FiniteSets, TLC

(***************************************************************************)
(* Bounds of the model (not program constants).                            *)
(***************************************************************************)
\* number of pieces whose fall is followed, from priming to landing (Spec)
MaxPieces == 1
\* number of key events the player may produce (Spec)
MaxKeys == 2
\* number of pieces whose fall is followed (SpecDrop)
MaxDropPieces == 6
\* largest side of the square matrices given to rotate (SpecFn)
MaxShapeSize == 3
\* largest integer given to reverseNibble (SpecFn)
MaxNibbleArg == 40

(***************************************************************************)
(* Array and bit helpers.                                                  *)
(***************************************************************************)
length(a) == Cardinality(DOMAIN a)

FromRows(rows) ==
  [i \in 0..(Len(rows) - 1) |->
     [j \in 0..(Len(rows[i + 1]) - 1) |-> rows[i + 1][j + 1]]]

\* Array.from({ length: r }, () => Array(c).fill(false))
Filled(r, c) == [i \in 0..(r - 1) |-> [j \in 0..(c - 1) |-> FALSE]]

\* a[i][j] = v ; a write outside the array does not change its cells
SetCell(a, i, j, v) ==
  IF i \in DOMAIN a /\ j \in DOMAIN a[i] THEN [a EXCEPT ![i][j] = v] ELSE a

\* a[i][j] read where j may lie outside the row (undefined is falsy)
Truthy(a, i, j) == IF j \in DOMAIN a[i] THEN a[i][j] ELSE FALSE

RECURSIVE BitAnd(_, _)
BitAnd(a, b) ==
  IF a = 0 \/ b = 0 THEN 0
  ELSE (IF a % 2 = 1 /\ b % 2 = 1 THEN 1 ELSE 0) + 2 * BitAnd(a \div 2, b \div 2)

RECURSIVE BitOr(_, _)
BitOr(a, b) ==
  IF a = 0 THEN b
  ELSE IF b = 0 THEN a
  ELSE (IF a % 2 = 1 \/ b % 2 = 1 THEN 1 ELSE 0) + 2 * BitOr(a \div 2, b \div 2)

Shl(a, n) == a * (2 ^ n)
Shr(a, n) == a \div (2 ^ n)

(***************************************************************************)
(* gameUtils.ts                                                            *)
(***************************************************************************)
Vec(vx, vy) == [x |-> vx, y |-> vy]

vecAdd(a, b) == Vec(a.x + b.x, a.y + b.y)

\* Math.sqrt is monotone, so the comparison of two distances is the
\* comparison of their squares; the square is what is computed here.
distance(a, b) == (a.x - b.x) * (a.x - b.x) + (a.y - b.y) * (a.y - b.y)

Reservoirs == {"TL", "BL", "TR", "BR"}

dispenseSequence == [i \in 0..6 |-> <<8, 12, 7, 1, 12, 10, 10>>[i + 1]]

\* reverseNibble with bit 2 shifted right by two instead of one
reverseNibbleWrongShift(nibble) ==
  BitOr(BitOr(BitOr(Shl(BitAnd(nibble, 1), 3), Shl(BitAnd(nibble, 2), 1)),
              Shr(BitAnd(nibble, 4), 2)), Shr(BitAnd(nibble, 8), 3))

\* reverseNibble(nibble)

reverseNibble(nibble) ==
  BitOr(BitOr(BitOr(Shl(BitAnd(nibble, 1), 3), Shl(BitAnd(nibble, 2), 1)),
              Shr(BitAnd(nibble, 4), 1)), Shr(BitAnd(nibble, 8), 3))

dispenseDropFrame == 3

(***************************************************************************)
(* Tetromino.ts                                                            *)
(***************************************************************************)
TetrominoType ==
  {"HORIZONTAL", "LEFT_CORNER", "RIGHT_CORNER", "SQUARE", "STEP_UP_LEFT",
   "STEP_UP_RIGHT", "PYRAMID"}

tetrominoShapes ==
  [t \in TetrominoType |->
     CASE t = "HORIZONTAL" ->
            FromRows(<< <<FALSE, FALSE, FALSE, FALSE>>,
                        <<TRUE, TRUE, TRUE, TRUE>>,
                        <<FALSE, FALSE, FALSE, FALSE>>,
                        <<FALSE, FALSE, FALSE, FALSE>> >>)
       [] t = "LEFT_CORNER" ->
            FromRows(<< <<TRUE, FALSE, FALSE>>,
                        <<TRUE, TRUE, TRUE>>,
                        <<FALSE, FALSE, FALSE>> >>)
       [] t = "RIGHT_CORNER" ->
            FromRows(<< <<FALSE, FALSE, TRUE>>,
                        <<TRUE, TRUE, TRUE>>,
                        <<FALSE, FALSE, FALSE>> >>)
       [] t = "SQUARE" ->
            FromRows(<< <<FALSE, TRUE, TRUE, FALSE>>,
                        <<FALSE, TRUE, TRUE, FALSE>>,
                        <<FALSE, FALSE, FALSE, FALSE>> >>)
       [] t = "STEP_UP_LEFT" ->
            FromRows(<< <<TRUE, TRUE, FALSE>>,
                        <<FALSE, TRUE, TRUE>>,
                        <<FALSE, FALSE, FALSE>> >>)
       [] t = "STEP_UP_RIGHT" ->
            FromRows(<< <<FALSE, TRUE, TRUE>>,
                        <<TRUE, TRUE, FALSE>>,
                        <<FALSE, FALSE, FALSE>> >>)
       [] t = "PYRAMID" ->
            FromRows(<< <<FALSE, TRUE, FALSE>>,
                        <<TRUE, TRUE, TRUE>>,
                        <<FALSE, FALSE, FALSE>> >>)]

centerPos == Vec(1, 1)

\* new Tetromino(type, pos)
Tetromino(type, pos) ==
  [type  |-> type,
   shape |-> tetrominoShapes[type],
   size  |-> Vec(length(tetrominoShapes[type][0]), length(tetrominoShapes[type])),
   pos   |-> pos]

\* Tetromino.render(electrodes)
tetrominoRender(t, electrodes) ==
  LET targets ==
        {<<t.pos.y + y, t.pos.x + x>> :
           <<y, x>> \in {c \in (0..(t.size.y - 1)) \X (0..(t.size.x - 1)) :
                           Truthy(t.shape, c[1], c[2])}}
  IN [ty \in DOMAIN electrodes |->
        [tx \in DOMAIN electrodes[ty] |->
           electrodes[ty][tx] \/ <<ty, tx>> \in targets]]

\* Tetromino.rotate(shape, direction)
rotate(shape, direction) ==
  LET size == length(shape)
  IN [y \in 0..(size - 1) |->
        [x \in 0..(size - 1) |->
           IF direction = 1 THEN shape[size - 1 - x][y]
           ELSE shape[x][size - 1 - y]]]

(***************************************************************************)
(* Game.ts : dimensions                                                    *)
(***************************************************************************)
size == Vec(16, 8)
gameSize == Vec(size.x - 2, size.y)

\* Tetris.ts field initialisers
tetroSpawnPosition == Vec(2, 1)   \* Math.ceil(gameSize.y / 2 - 2) = 2

\* the top level taken as the row above the spawn row
topLevelAboveSpawn == tetroSpawnPosition.y - 1

topLevel == 3

Directions ==
  [d \in {"LEFT", "RIGHT", "DOWN"} |->
     CASE d = "LEFT" -> Vec(-1, 0)
       [] d = "RIGHT" -> Vec(1, 0)
       [] d = "DOWN" -> Vec(0, 1)]

\* Game.getDispenseLocation(reservoir)
getDispenseLocation(reservoir) ==
  CASE reservoir = "TL" -> Vec(0, 1)
    [] reservoir = "BL" -> Vec(0, gameSize.y - 2)
    [] reservoir = "TR" -> Vec(gameSize.x - 2, 1)
    [] reservoir = "BR" -> Vec(gameSize.x - 2, gameSize.y - 2)

\* findPath moving vertically first
RECURSIVE findPathVerticalFirst(_, _)
findPathVerticalFirst(current, end) ==
  IF current.x # end.x \/ current.y # end.y
  THEN LET next ==
             IF current.y # end.y
             THEN Vec(current.x, current.y + (IF current.y < end.y THEN 1 ELSE -1))
             ELSE Vec(current.x + (IF current.x < end.x THEN 1 ELSE -1), current.y)
       IN <<next>> \o findPathVerticalFirst(next, end)
  ELSE <<>>

\* Game.findPath(start, end): the loop, one iteration per recursion
RECURSIVE findPathFrom(_, _)
findPathFrom(current, end) ==
  IF current.x # end.x \/ current.y # end.y
  THEN LET next ==
             IF current.x # end.x
             THEN Vec(current.x + (IF current.x < end.x THEN 1 ELSE -1), current.y)
             ELSE Vec(current.x, current.y + (IF current.y < end.y THEN 1 ELSE -1))
       IN <<next>> \o findPathFrom(next, end)
  ELSE <<>>

\* Game.findPath(start, end)
findPath(start, end) == findPathFrom(Vec(start.x, start.y), end)

(***************************************************************************)
(* State.  The fields of the Tetris object (class Tetris extends Game),    *)
(* the position of the frame loop, and the record of what the current      *)
(* update() call has done so far.                                          *)
(***************************************************************************)
VARIABLES
  electrodes,             \* Game.electrodes[y][x], 8 rows of 14
  needFilling,            \* Game.needFilling, the fill queue
  currentlyMoving,        \* Game.currentlyMoving: <<>> is null, <<v>> a drop
  availableReservoirs,    \* Game.availableReservoirs
  specialElectrodesLeft,  \* Game.specialElectrodesLeft
  specialElectrodesRight, \* Game.specialElectrodesRight
  currentBlocks,          \* Tetris.currentBlocks[y][x], 14 rows of 8
  droppingTetro,          \* Tetris.droppingTetro
  finished,               \* Tetris.finished
  moving,                 \* Tetris.moving
  aboutRotate,            \* Tetris.aboutRotate
  rotationState,          \* Tetris.rotationState
  newShape,               \* Tetris.newShape
  pc,                     \* "new", "cleared", "idle" (between frames), "dispense" (in a wait),
                          \* "threw" (an exception left the running call)
  dispensing,             \* <<>> or <<[reservoir, i, wait]>>: the suspended dispense call
  sinkFails,              \* the onTransmit callback throws when it is invoked
  packet,                 \* the frame handed to onTransmit by the last transmit
  log,                    \* the calls made by the current (or last) update()
  spawned,                \* pieces created by tick so far
  keys,                   \* key events handled so far
  probe                   \* argument and result of a function applied on its own

vars ==
  <<electrodes, needFilling, currentlyMoving, availableReservoirs,
    specialElectrodesLeft, specialElectrodesRight, currentBlocks, droppingTetro,
    finished, moving, aboutRotate, rotationState, newShape, pc, dispensing,
    sinkFails, packet, log, spawned, keys, probe>>

\* the object the methods below work on
this ==
  [electrodes |-> electrodes, needFilling |-> needFilling,
   currentlyMoving |-> currentlyMoving,
   availableReservoirs |-> availableReservoirs,
   specialElectrodesLeft |-> specialElectrodesLeft,
   specialElectrodesRight |-> specialElectrodesRight,
   currentBlocks |-> currentBlocks, droppingTetro |-> droppingTetro,
   finished |-> finished, moving |-> moving, aboutRotate |-> aboutRotate,
   rotationState |-> rotationState, newShape |-> newShape, pc |-> pc,
   dispensing |-> dispensing, sinkFails |-> sinkFails, packet |-> packet,
   log |-> log,
   spawned |-> spawned]

\* the fields of g become the next state
Becomes(g) ==
  /\ electrodes' = g.electrodes
  /\ needFilling' = g.needFilling
  /\ currentlyMoving' = g.currentlyMoving
  /\ availableReservoirs' = g.availableReservoirs
  /\ specialElectrodesLeft' = g.specialElectrodesLeft
  /\ specialElectrodesRight' = g.specialElectrodesRight
  /\ currentBlocks' = g.currentBlocks
  /\ droppingTetro' = g.droppingTetro
  /\ finished' = g.finished
  /\ moving' = g.moving
  /\ aboutRotate' = g.aboutRotate
  /\ rotationState' = g.rotationState
  /\ newShape' = g.newShape
  /\ pc' = g.pc
  /\ dispensing' = g.dispensing
  /\ sinkFails' = g.sinkFails
  /\ packet' = g.packet
  /\ log' = g.log
  /\ spawned' = g.spawned

Logged(g, what) == [g EXCEPT !.log = Append(@, what)]

(***************************************************************************)
(* Game.ts : the board engine                                              *)
(***************************************************************************)
\* the packet with the left special byte written at both ends
packetOfLeftInBoth(left, cells, right) ==
  [i \in 0..31 |->
     IF i = 0 \/ i = 15 THEN left % 256
     ELSE IF i \in 1..gameSize.x
     THEN LET x == i - 1
              RECURSIVE colByte(_)
              colByte(y) ==
                IF y = gameSize.y THEN 0
                ELSE BitOr(IF cells[y][x] THEN Shl(1, y) ELSE 0, colByte(y + 1))
          IN colByte(0) % 256
     ELSE 0]

\* the packet with row 0 in the most significant bit of a column byte
packetOfMsbFirst(left, cells, right) ==
  [i \in 0..31 |->
     IF i = 0 THEN left % 256
     ELSE IF i \in 1..gameSize.x
     THEN LET x == i - 1
              RECURSIVE colByte(_)
              colByte(y) ==
                IF y = gameSize.y THEN 0
                ELSE BitOr(IF cells[y][x] THEN Shl(1, gameSize.y - 1 - y) ELSE 0,
                           colByte(y + 1))
          IN colByte(0) % 256
     ELSE IF i = 15 THEN right % 256
     ELSE 0]

\* the packet built by Game.transmit()
packetOf(left, cells, right) ==
  [i \in 0..31 |->
     IF i = 0 THEN left % 256
     ELSE IF i \in 1..gameSize.x
     THEN LET x == i - 1
              RECURSIVE colByte(_)
              colByte(y) ==
                IF y = gameSize.y THEN 0
                ELSE BitOr(IF cells[y][x] THEN Shl(1, y) ELSE 0, colByte(y + 1))
          IN colByte(0) % 256
     ELSE IF i = 15 THEN right % 256
     ELSE 0]

\* an exception leaves the running call: nothing after it runs
Throws(g) == [g EXCEPT !.pc = "threw"]

\* Game.transmit(): builds the 32-byte packet and hands it to onTransmit; what
\* the callback throws is not caught
transmit(g) ==
  LET h == Logged([g EXCEPT !.packet =
                     packetOf(g.specialElectrodesLeft, g.electrodes,
                              g.specialElectrodesRight)],
                  "transmit")
  IN IF g.sinkFails THEN Throws(h) ELSE h

\* updateReservoirState storing the nibble without keeping the other half of
\* the byte
updateReservoirStateWholeByte(g, reservoirId, nibble) ==
  CASE reservoirId = "TL" ->
         [g EXCEPT !.specialElectrodesLeft = BitAnd(nibble, 15)]
    [] reservoirId = "BL" ->
         [g EXCEPT !.specialElectrodesLeft = Shl(nibble, 4)]
    [] reservoirId = "TR" ->
         [g EXCEPT !.specialElectrodesRight = BitAnd(nibble, 15)]
    [] reservoirId = "BR" ->
         [g EXCEPT !.specialElectrodesRight = Shl(nibble, 4)]
    [] OTHER -> g

\* Game.updateReservoirState(reservoirId, nibble)
updateReservoirState(g, reservoirId, nibble) ==
  CASE reservoirId = "TL" ->
         [g EXCEPT !.specialElectrodesLeft =
            BitOr(BitAnd(g.specialElectrodesLeft, 240), BitAnd(nibble, 15))]
    [] reservoirId = "BL" ->
         [g EXCEPT !.specialElectrodesLeft =
            BitOr(BitAnd(g.specialElectrodesLeft, 15), Shl(nibble, 4))]
    [] reservoirId = "TR" ->
         [g EXCEPT !.specialElectrodesRight =
            BitOr(BitAnd(g.specialElectrodesRight, 240), BitAnd(nibble, 15))]
    [] reservoirId = "BR" ->
         [g EXCEPT !.specialElectrodesRight =
            BitOr(BitAnd(g.specialElectrodesRight, 15), Shl(nibble, 4))]
    [] OTHER -> g

\* Game.render() that leaves the droplet in transit out
gameRenderNoDroplet(g) == g

\* Game.render(): overlays the moving drop
gameRender(g) ==
  IF g.currentlyMoving # <<>>
  THEN [g EXCEPT !.electrodes =
          SetCell(@, g.currentlyMoving[1].y, g.currentlyMoving[1].x, TRUE)]
  ELSE g

\* Game.clear()
clear(g) ==
  transmit([g EXCEPT !.electrodes = Filled(gameSize.y, gameSize.x),
                     !.specialElectrodesLeft = 0,
                     !.specialElectrodesRight = 0])

(***************************************************************************)
(* Tetris.ts : the piece state machine                                     *)
(***************************************************************************)
\* the cells (y, x) of a shape that are set
occupied(shape) ==
  {c \in UNION {{<<y, x>> : x \in DOMAIN shape[y]} : y \in DOMAIN shape} :
     shape[c[1]][c[2]]}

\* tetrisCoordToGameCoord that swaps the axes and does not mirror the column
tetrisCoordToGameCoordUnmirrored(coord) == Vec(coord.y, coord.x)

\* Tetris.tetrisCoordToGameCoord(coord)
tetrisCoordToGameCoord(coord) == Vec(coord.y, gameSize.y - 1 - coord.x)

\* isValidMove that tests the bounds and not the static blocks
isValidMoveBoundsOnly(g, pos, shape) ==
  \A c \in occupied(shape) :
     /\ pos.x + c[2] >= 0
     /\ pos.x + c[2] < gameSize.y
     /\ pos.y + c[1] >= 0
     /\ pos.y + c[1] < gameSize.x

\* Tetris.isValidMove(pos, shape)
isValidMove(g, pos, shape) ==
  \A c \in occupied(shape) :
     LET targetX == pos.x + c[2]
         targetY == pos.y + c[1]
     IN ~(\/ targetX < 0
          \/ targetX >= gameSize.y
          \/ targetY < 0
          \/ targetY >= gameSize.x
          \/ Truthy(g.currentBlocks, targetY, targetX))

\* hasLanded that sees the floor and not the static blocks
hasLandedFloorOnly(g, pos, shape) ==
  \E c \in occupied(shape) : pos.y + c[1] + 1 >= gameSize.x

\* Tetris.hasLanded(pos, shape)
hasLanded(g, pos, shape) ==
  \E c \in occupied(shape) :
     LET targetX == pos.x + c[2]
         targetY == pos.y + c[1]
         belowY == targetY + 1
     IN \/ belowY >= gameSize.x
        \/ Truthy(g.currentBlocks, belowY, targetX)

\* move that takes the candidate position without validating it
moveUnchecked(g, direction) ==
  Logged([g EXCEPT !.droppingTetro.pos = vecAdd(@, Directions[direction]),
                   !.moving = "DOWN"],
         "move")

\* Tetris.move(direction)
move(g, direction) ==
  LET moveVector == Directions[direction]
      newPos == vecAdd(g.droppingTetro.pos, moveVector)
      moved == IF isValidMove(g, newPos, g.droppingTetro.shape)
               THEN [g EXCEPT !.droppingTetro.pos = newPos]
               ELSE g
  IN Logged([moved EXCEPT !.moving = "DOWN"], "move")

\* testRotations starting the rotation without validating the rotated shape
testRotationsUnchecked(g, dir) ==
  Logged([g EXCEPT !.newShape = rotate(g.droppingTetro.shape, dir),
                   !.rotationState = "starting"],
         "testRotations:true")

\* testRotations storing the rotated shape before it is validated
testRotationsAssignFirst(g, dir) ==
  LET rotated == rotate(g.droppingTetro.shape, dir)
      h == [g EXCEPT !.newShape = rotated]
  IN IF isValidMove(g, g.droppingTetro.pos, rotated)
     THEN Logged([h EXCEPT !.rotationState = "starting"], "testRotations:true")
     ELSE Logged(h, "testRotations:false")

\* Tetris.testRotations(dir)
testRotations(g, dir) ==
  LET rotated == rotate(g.droppingTetro.shape, dir)
  IN IF isValidMove(g, g.droppingTetro.pos, rotated)
     THEN Logged([g EXCEPT !.newShape = rotated, !.rotationState = "starting"],
                 "testRotations:true")
     ELSE Logged(g, "testRotations:false")

\* Tetris.applyRotation()
applyRotation(g) ==
  LET h == Logged(g, "applyRotation")
  IN CASE g.rotationState = "not-rotating" -> h
       [] g.rotationState = "starting" -> [h EXCEPT !.rotationState = "coalesce"]
       [] g.rotationState = "coalesce" ->
            [h EXCEPT !.droppingTetro.shape = g.newShape,
                      !.rotationState = "ending"]
       [] g.rotationState = "ending" -> [h EXCEPT !.rotationState = "not-rotating"]

\* Tetris.resetRotationState()
resetRotationState(g) == [g EXCEPT !.rotationState = "not-rotating"]

\* finalizeTetromino writing every cell of the shape matrix, set or not
finalizeTetrominoWholeMatrix(g) ==
  LET t == g.droppingTetro
      targets == {<<t.pos.y + y, t.pos.x + x>> :
                    y \in DOMAIN t.shape, x \in 0..(length(t.shape) - 1)}
      outside == {c \in targets : c[1] \notin DOMAIN g.currentBlocks}
      written == {c \in targets : \A o \in outside : c[1] < o[1]}
      merged == [g EXCEPT !.currentBlocks =
                   [y \in DOMAIN g.currentBlocks |->
                      [x \in DOMAIN g.currentBlocks[y] \cup
                                {c[2] : c \in {w \in written : w[1] = y}} |->
                         Truthy(g.currentBlocks, y, x) \/ <<y, x>> \in written]]]
  IN IF outside = {}
     THEN Logged(merged, "finalizeTetromino")
     ELSE Throws(Logged(merged, "finalizeTetromino"))

\* Tetris.finalizeTetromino(): a write to a column outside a row adds an
\* element to the row, a write to a row outside the grid throws; the cells are
\* visited row by row, so the writes to the rows above the first such row are
\* made before the exception
finalizeTetromino(g) ==
  LET t == g.droppingTetro
      targets == {<<t.pos.y + c[1], t.pos.x + c[2]>> : c \in occupied(t.shape)}
      outside == {c \in targets : c[1] \notin DOMAIN g.currentBlocks}
      written == {c \in targets : \A o \in outside : c[1] < o[1]}
      merged == [g EXCEPT !.currentBlocks =
                   [y \in DOMAIN g.currentBlocks |->
                      [x \in DOMAIN g.currentBlocks[y] \cup
                                {c[2] : c \in {w \in written : w[1] = y}} |->
                         Truthy(g.currentBlocks, y, x) \/ <<y, x>> \in written]]]
  IN IF outside = {}
     THEN Logged(merged, "finalizeTetromino")
     ELSE Throws(Logged(merged, "finalizeTetromino"))

\* the cells of one shape row, left to right, in game coordinates
RECURSIVE rowInWorldCoords(_, _, _)
rowInWorldCoords(t, y, x) ==
  IF x >= length(t.shape[y]) THEN <<>>
  ELSE (IF t.shape[y][x]
        THEN <<tetrisCoordToGameCoord(Vec(t.pos.x + x, t.pos.y + y))>>
        ELSE <<>>) \o rowInWorldCoords(t, y, x + 1)

RECURSIVE shapeInWorldCoords(_, _)
shapeInWorldCoords(t, y) ==
  IF y >= length(t.shape) THEN <<>>
  ELSE rowInWorldCoords(t, y, 0) \o shapeInWorldCoords(t, y + 1)

\* Tetris.primeDroppingTetro()
primeDroppingTetro(g) ==
  Logged([g EXCEPT !.needFilling = @ \o shapeInWorldCoords(g.droppingTetro, 0)],
         "primeDroppingTetro")

\* Tetris.transposeElectrodes()
transposeElectrodes(gameElectrodes) ==
  [ty \in 0..(gameSize.y - 1) |->
     [tx \in 0..(gameSize.x - 1) |-> gameElectrodes[tx][gameSize.y - 1 - ty]]]

\* Tetris.render(): the value of gameElectrodes it builds
gameElectrodesOf(g) ==
  LET t == g.droppingTetro
      blocks ==
        [x \in 0..(gameSize.x - 1) |->
           [y \in 0..(gameSize.y - 1) |-> g.currentBlocks[x][y]]]
      queued(coords) ==
        \E i \in 1..Len(g.needFilling) :
           g.needFilling[i].x = coords.x /\ g.needFilling[i].y = coords.y
      filledPart ==
        {tc \in {<<t.pos.y + c[1], t.pos.x + c[2]>> : c \in occupied(t.shape)} :
           ~queued(tetrisCoordToGameCoord(Vec(tc[2], tc[1])))}
  IN IF Len(g.needFilling) > 0
     THEN [ty \in DOMAIN blocks |->
             [tx \in DOMAIN blocks[ty] |->
                blocks[ty][tx] \/ <<ty, tx>> \in filledPart]]
     ELSE IF g.rotationState = "coalesce"
     THEN LET c == vecAdd(t.pos, centerPos)
          IN IF c.x \in DOMAIN blocks[c.y]
             THEN [blocks EXCEPT ![c.y][c.x] = TRUE]
             ELSE blocks
     ELSE tetrominoRender(t, blocks)

\* Tetris.render(), with the super.render() it ends with
render(g) ==
  gameRender(Logged([g EXCEPT !.electrodes = transposeElectrodes(gameElectrodesOf(g))],
                    "render"))

\* Tetris.tick(); type is the value drawn by Tetromino.randomTetromino
tick(g, type) ==
  IF g.finished THEN Logged(g, "tick")
  ELSE
    LET g0 == Logged(g, "tick")
        g1 == IF g0.aboutRotate
              THEN [testRotations(g0, 1) EXCEPT !.aboutRotate = FALSE]
              ELSE g0
        g2 == IF g1.rotationState = "not-rotating"
              THEN move(g1, g1.moving)
              ELSE applyRotation(g1)
    IN IF hasLanded(g2, g2.droppingTetro.pos, g2.droppingTetro.shape)
       THEN LET g3 == finalizeTetromino(resetRotationState(g2))
                g4 == IF \E x \in DOMAIN g3.currentBlocks[topLevel] :
                            g3.currentBlocks[topLevel][x]
                      THEN Logged([g3 EXCEPT !.finished = TRUE], "Game Over!")
                      ELSE g3
            IN IF g3.pc = "threw" THEN g3
               ELSE IF ~g4.finished
               THEN primeDroppingTetro(
                      [g4 EXCEPT !.droppingTetro = Tetromino(type, tetroSpawnPosition),
                                 !.spawned = @ + 1])
               ELSE g4
       ELSE g2

\* setMovement storing the direction whether or not the game has ended
setMovementUnguarded(g, direction) == [g EXCEPT !.moving = direction]

\* Tetris.setMovement(direction)
setMovement(g, direction) ==
  IF g.finished THEN g ELSE [g EXCEPT !.moving = direction]

\* init that leaves no reservoir available for filling
initNoReservoirs(g) ==
  primeDroppingTetro(
    [g EXCEPT !.specialElectrodesLeft = 24,
              !.specialElectrodesRight = 24,
              !.availableReservoirs = <<>>])

\* Tetris.init(), after its await this.clear()
init(g) ==
  primeDroppingTetro(
    [g EXCEPT !.specialElectrodesLeft = 24,
              !.specialElectrodesRight = 24,
              !.availableReservoirs = <<"TL", "BL">>])

(***************************************************************************)
(* Game.ts : filling, dispensing and the update loop                       *)
(***************************************************************************)
\* the loop of fillTick over availableReservoirs; closest is <<>> (null) or
\* <<reservoir, distance>>
RECURSIVE closestReservoirFrom(_, _, _, _)
closestReservoirFrom(g, electrodeToFill, i, closest) ==
  IF i > Len(g.availableReservoirs) THEN closest
  ELSE LET reservoir == g.availableReservoirs[i]
           dist == distance(electrodeToFill, getDispenseLocation(reservoir))
       IN closestReservoirFrom(g, electrodeToFill, i + 1,
            IF closest = <<>> \/ dist < closest[2]
            THEN <<reservoir, dist>> ELSE closest)

\* Game.dispense(reservoir) up to its first wait
dispenseBegin(g, reservoir) ==
  LET g1 == transmit(updateReservoirState(Logged(g, "dispense"), reservoir, 0))
  IN IF g1.pc = "threw" THEN g1
     ELSE [g1 EXCEPT !.pc = "dispense",
                     !.dispensing = <<[reservoir |-> reservoir, i |-> 0,
                                       wait |-> "cleanupDelay"]>>]

\* the waveform step that writes the same nibble to top and bottom reservoirs
dispenseStepNoReverse(g) ==
  LET reservoir == g.dispensing[1].reservoir
      i == g.dispensing[1].i
      dropLocation == getDispenseLocation(reservoir)
      g1 == updateReservoirState(g, reservoir, dispenseSequence[i])
      g2 == IF i = dispenseDropFrame
            THEN [g1 EXCEPT !.electrodes[dropLocation.y][dropLocation.x] = TRUE]
            ELSE g1
      g3 == transmit(g2)
  IN IF g3.pc = "threw" THEN g3
     ELSE [g3 EXCEPT !.dispensing[1].i = i + 1,
                     !.dispensing[1].wait = "movementDelay"]

\* Game.dispense: one iteration of the waveform loop, up to its wait
dispenseStep(g) ==
  LET reservoir == g.dispensing[1].reservoir
      i == g.dispensing[1].i
      dropLocation == getDispenseLocation(reservoir)
      nibble == IF reservoir = "BL" \/ reservoir = "BR"
                THEN reverseNibble(dispenseSequence[i])
                ELSE dispenseSequence[i]
      g1 == updateReservoirState(g, reservoir, nibble)
      g2 == IF i = dispenseDropFrame
            THEN [g1 EXCEPT !.electrodes[dropLocation.y][dropLocation.x] = TRUE]
            ELSE g1
      g3 == transmit(g2)
  IN IF g3.pc = "threw" THEN g3
     ELSE [g3 EXCEPT !.dispensing[1].i = i + 1,
                     !.dispensing[1].wait = "movementDelay"]

\* the end of dispense that writes the default nibble and does not transmit it
dispenseCleanupNoTransmit(g) ==
  LET reservoir == g.dispensing[1].reservoir
      defaultNibble == IF reservoir = "BL" \/ reservoir = "BR"
                       THEN reverseNibble(8) ELSE 8
  IN [updateReservoirState(g, reservoir, defaultNibble)
        EXCEPT !.dispensing[1].i = length(dispenseSequence) + 1,
               !.dispensing[1].wait = "cleanupDelay"]

\* the end of dispense that writes 1000 for every reservoir, bottom ones too
dispenseCleanupNoReverse(g) ==
  LET reservoir == g.dispensing[1].reservoir
      g1 == transmit(updateReservoirState(g, reservoir, 8))
  IN IF g1.pc = "threw" THEN g1
     ELSE [g1 EXCEPT !.dispensing[1].i = length(dispenseSequence) + 1,
                     !.dispensing[1].wait = "cleanupDelay"]

\* Game.dispense: after the loop, up to the last wait
dispenseCleanup(g) ==
  LET reservoir == g.dispensing[1].reservoir
      defaultNibble == IF reservoir = "BL" \/ reservoir = "BR"
                       THEN reverseNibble(8) ELSE 8
      g1 == transmit(updateReservoirState(g, reservoir, defaultNibble))
  IN IF g1.pc = "threw" THEN g1
     ELSE [g1 EXCEPT !.dispensing[1].i = length(dispenseSequence) + 1,
                     !.dispensing[1].wait = "cleanupDelay"]

\* Game.dispense returns; fillTick stores the drop and returns
dispenseReturn(g) ==
  [g EXCEPT !.currentlyMoving = <<getDispenseLocation(g.dispensing[1].reservoir)>>,
            !.dispensing = <<>>,
            !.pc = "idle"]

\* fillTick that removes the head it has reached and keeps the in-transit marker
fillTickKeepsMarker(g) ==
  IF Len(g.needFilling) = 0 THEN Logged(g, "fillTick")
  ELSE
    LET g0 == Logged(g, "fillTick")
        electrodeToFill == g.needFilling[1]
    IN IF g.currentlyMoving = <<>>
       THEN LET closest == closestReservoirFrom(g, electrodeToFill, 1, <<>>)
            IN IF closest = <<>>
               THEN Logged(g0, "No available reservoir")
               ELSE dispenseBegin(g0, closest[1])
       ELSE LET cur == g.currentlyMoving[1]
                path == findPath(cur, electrodeToFill)
            IN IF Len(path) = 0
               THEN Logged(g0, "No path found")
               ELSE LET nextStep == path[1]
                        g1 == [g0 EXCEPT
                                 !.electrodes =
                                    [[@ EXCEPT ![nextStep.y][nextStep.x] = TRUE]
                                        EXCEPT ![cur.y][cur.x] = FALSE],
                                 !.currentlyMoving = <<nextStep>>]
                    IN IF nextStep.x = electrodeToFill.x /\ nextStep.y = electrodeToFill.y
                       THEN [g1 EXCEPT !.needFilling = Tail(@)]
                       ELSE g1

\* fillTick that dispenses from the top left reservoir when none is available
fillTickDefaultReservoir(g) ==
  IF Len(g.needFilling) = 0 THEN Logged(g, "fillTick")
  ELSE
    LET g0 == Logged(g, "fillTick")
        electrodeToFill == g.needFilling[1]
    IN IF g.currentlyMoving = <<>>
       THEN LET closest == closestReservoirFrom(g, electrodeToFill, 1, <<>>)
            IN IF closest = <<>>
               THEN dispenseBegin(g0, "TL")
               ELSE dispenseBegin(g0, closest[1])
       ELSE LET cur == g.currentlyMoving[1]
                path == findPath(cur, electrodeToFill)
            IN IF Len(path) = 0
               THEN Logged(g0, "No path found")
               ELSE LET nextStep == path[1]
                        g1 == [g0 EXCEPT
                                 !.electrodes =
                                    [[@ EXCEPT ![nextStep.y][nextStep.x] = TRUE]
                                        EXCEPT ![cur.y][cur.x] = FALSE],
                                 !.currentlyMoving = <<nextStep>>]
                    IN IF nextStep.x = electrodeToFill.x /\ nextStep.y = electrodeToFill.y
                       THEN [g1 EXCEPT !.needFilling = Tail(@),
                                       !.currentlyMoving = <<>>]
                       ELSE g1

\* Game.fillTick(), up to the first wait of dispense when it dispenses
fillTick(g) ==
  IF Len(g.needFilling) = 0 THEN Logged(g, "fillTick")
  ELSE
    LET g0 == Logged(g, "fillTick")
        electrodeToFill == g.needFilling[1]
    IN IF g.currentlyMoving = <<>>
       THEN LET closest == closestReservoirFrom(g, electrodeToFill, 1, <<>>)
            IN IF closest = <<>>
               THEN Logged(g0, "No available reservoir")
               ELSE dispenseBegin(g0, closest[1])
       ELSE LET cur == g.currentlyMoving[1]
                path == findPath(cur, electrodeToFill)
            IN IF Len(path) = 0
               THEN Logged(g0, "No path found")
               ELSE LET nextStep == path[1]
                        g1 == [g0 EXCEPT
                                 !.electrodes =
                                    [[@ EXCEPT ![nextStep.y][nextStep.x] = TRUE]
                                        EXCEPT ![cur.y][cur.x] = FALSE],
                                 !.currentlyMoving = <<nextStep>>]
                    IN IF nextStep.x = electrodeToFill.x /\ nextStep.y = electrodeToFill.y
                       THEN [g1 EXCEPT !.needFilling = Tail(@),
                                       !.currentlyMoving = <<>>]
                       ELSE g1

\* the tick decision that runs the game tick whatever the fill queue holds
updateTickAlwaysGame(g, newTick, type) ==
  LET g0 == [g EXCEPT !.log = <<IF newTick THEN "newTick" ELSE "noTick">>]
  IN IF newTick THEN tick(g0, type) ELSE g0

\* Game.update(): the tick decision.  newTick is the outcome of
\* Date.now() - lastFrame > movementDelay, an input of the call.
updateTick(g, newTick, type) ==
  LET g0 == [g EXCEPT !.log = <<IF newTick THEN "newTick" ELSE "noTick">>]
  IN IF newTick
     THEN IF Len(g0.needFilling) > 0 THEN fillTick(g0) ELSE tick(g0, type)
     ELSE g0

\* Game.update(): what follows the tick decision
updateFinish(g) == transmit(render(g))

\* update() that renders and transmits only when a tick was accepted
updateFrameOnlyOnTick(g, newTick, type) ==
  LET g1 == updateTick(g, newTick, type)
  IN IF g1.pc \in {"dispense", "threw"} \/ ~newTick THEN g1 ELSE updateFinish(g1)

\* Game.update(), up to its end or to the first wait inside it
update(g, newTick, type) ==
  LET g1 == updateTick(g, newTick, type)
  IN IF g1.pc \in {"dispense", "threw"} THEN g1 ELSE updateFinish(g1)

(***************************************************************************)
(* Initial state: the object as constructed (field initialisers).          *)
(***************************************************************************)
Constructed(types) ==
  /\ electrodes = Filled(gameSize.y, gameSize.x)
  /\ needFilling = <<>>
  /\ currentlyMoving = <<>>
  /\ availableReservoirs = <<"TL", "BL", "TR", "BR">>
  /\ specialElectrodesLeft = 0
  /\ specialElectrodesRight = 0
  /\ currentBlocks = Filled(gameSize.x, gameSize.y)
  /\ droppingTetro \in {Tetromino(type, tetroSpawnPosition) : type \in types}
  /\ finished = FALSE
  /\ moving = "DOWN"
  /\ aboutRotate = FALSE
  /\ rotationState = "not-rotating"
  /\ newShape = <<>>
  /\ pc = "new"
  /\ dispensing = <<>>
  /\ sinkFails = FALSE
  /\ packet = <<>>
  /\ log = <<>>
  /\ spawned = 0
  /\ keys = 0

Init ==
  /\ Constructed(TetrominoType)
  /\ probe = [fn |-> "none"]

(***************************************************************************)
(* Game.svelte : onMount, the frame loop and the key handler               *)
(***************************************************************************)
\* run(): tetris.init() up to the end of its await this.clear()
InitClear ==
  /\ pc = "new"
  /\ LET g == clear(Logged(this, "init"))
     IN Becomes(IF g.pc = "threw" THEN g ELSE [g EXCEPT !.pc = "cleared"])
  /\ UNCHANGED <<keys, probe>>

\* run(): the rest of tetris.init()
InitPrime ==
  /\ pc = "cleared"
  /\ Becomes([init(this) EXCEPT !.pc = "idle"])
  /\ UNCHANGED <<keys, probe>>

\* loop(): one call of update() in which the tick is accepted; the type is
\* drawn only when the tick creates a piece
FrameTick(types, maxPieces) ==
  /\ pc = "idle"
  /\ spawned < maxPieces
  /\ LET g == update(this, TRUE, "HORIZONTAL")
     IN IF g.spawned = spawned
        THEN Becomes(g)
        ELSE \E type \in types : Becomes(update(this, TRUE, type))
  /\ UNCHANGED <<keys, probe>>

\* loop() asking for the next frame without awaiting update(): an update in
\* which no tick is due starts while a dispense is suspended
FrameNoTickUnawaited ==
  /\ pc \in {"idle", "dispense"}
  /\ Becomes(update(this, FALSE, "HORIZONTAL"))
  /\ UNCHANGED <<keys, probe>>

\* loop(): one call of update() in which no tick is due
FrameNoTick ==
  /\ pc = "idle"
  /\ Becomes(update(this, FALSE, "HORIZONTAL"))
  /\ UNCHANGED <<keys, probe>>

\* a wait of the dispense waveform ends: the next step of the loop runs
DispenseStep ==
  /\ pc = "dispense"
  /\ dispensing[1].i < length(dispenseSequence)
  /\ Becomes(dispenseStep(this))
  /\ UNCHANGED <<keys, probe>>

\* the wait after the last step ends: the default nibble is written
DispenseCleanup ==
  /\ pc = "dispense"
  /\ dispensing[1].i = length(dispenseSequence)
  /\ Becomes(dispenseCleanup(this))
  /\ UNCHANGED <<keys, probe>>

\* the last wait ends: dispense and fillTick return, update() completes
DispenseReturn ==
  /\ pc = "dispense"
  /\ dispensing[1].i = length(dispenseSequence) + 1
  /\ Becomes(updateFinish(dispenseReturn(this)))
  /\ UNCHANGED <<keys, probe>>

\* handleKeyPress: ArrowLeft / a, ArrowRight / d
KeyMove(direction) ==
  /\ pc \in {"idle", "dispense"}
  /\ keys < MaxKeys
  /\ keys' = keys + 1
  /\ Becomes(setMovement(this, direction))
  /\ UNCHANGED probe

KeyLeft == KeyMove("LEFT")

KeyRight == KeyMove("RIGHT")

\* handleKeyPress: r
KeyRotate ==
  /\ pc \in {"idle", "dispense"}
  /\ keys < MaxKeys
  /\ keys' = keys + 1
  /\ Becomes([this EXCEPT !.aboutRotate = TRUE])
  /\ UNCHANGED probe

Tick == FrameTick(TetrominoType, MaxPieces)

Next ==
  \/ InitClear
  \/ InitPrime
  \/ Tick
  \/ FrameNoTick
  \/ DispenseStep
  \/ DispenseCleanup
  \/ DispenseReturn
  \/ KeyLeft
  \/ KeyRight
  \/ KeyRotate

Spec == Init /\ [][Next]_vars

(***************************************************************************)
(* The game with no key events and pieces of two kinds, followed to game   *)
(* over.                                                                   *)
(***************************************************************************)
DropKinds == {"SQUARE", "PYRAMID"}

InitDrop ==
  /\ Constructed(DropKinds)
  /\ probe = [fn |-> "none"]

DropTick == FrameTick(DropKinds, MaxDropPieces)

NextDrop ==
  \/ InitClear
  \/ InitPrime
  \/ DropTick
  \/ FrameNoTick
  \/ DispenseStep
  \/ DispenseCleanup
  \/ DispenseReturn

SpecDrop == InitDrop /\ [][NextDrop]_vars

\* the conditions under which DropTick, DispenseStep, DispenseCleanup and
\* DispenseReturn can be taken
DropTickDue == pc = "idle" /\ spawned < MaxDropPieces

DispenseStepDue ==
  pc = "dispense" /\ dispensing[1].i < length(dispenseSequence)

DispenseCleanupDue ==
  pc = "dispense" /\ dispensing[1].i = length(dispenseSequence)

DispenseReturnDue ==
  pc = "dispense" /\ dispensing[1].i = length(dispenseSequence) + 1

\* the same game when the frame loop keeps running: requestAnimationFrame
\* calls loop again after every update, time passes so a tick is accepted
\* again, and every timed wait of a dispense ends.  The fairness of the frame
\* and dispense actions is weak fairness written out, with the condition
\* under which the action can be taken in the place of ENABLED.
SpecDropFair ==
  /\ InitDrop
  /\ [][NextDrop]_vars
  /\ WF_vars(InitClear)
  /\ WF_vars(InitPrime)
  /\ (<>[]DispenseStepDue => []<><<DispenseStep>>_vars)
  /\ (<>[]DispenseCleanupDue => []<><<DispenseCleanup>>_vars)
  /\ (<>[]DispenseReturnDue => []<><<DispenseReturn>>_vars)
  /\ (<>[]DropTickDue => []<><<DropTick>>_vars)

(***************************************************************************)
(* The same game with key events once it has ended.                        *)
(***************************************************************************)
OverKeyLeft == finished /\ KeyLeft

OverKeyRight == finished /\ KeyRight

OverKeyRotate == finished /\ KeyRotate

NextOver ==
  \/ InitClear
  \/ InitPrime
  \/ DropTick
  \/ FrameNoTick
  \/ DispenseStep
  \/ DispenseCleanup
  \/ DispenseReturn
  \/ OverKeyLeft
  \/ OverKeyRight
  \/ OverKeyRotate

SpecOver == InitDrop /\ [][NextOver]_vars

(***************************************************************************)
(* The functions findPath, rotate and reverseNibble applied on their own   *)
(* to arguments drawn from bounded sets.                                   *)
(***************************************************************************)
GridCells == {Vec(cx, cy) : cx \in 0..(gameSize.x - 1), cy \in 0..(gameSize.y - 1)}

SquareShapes ==
  UNION {[0..(n - 1) -> [0..(n - 1) -> BOOLEAN]] : n \in 1..MaxShapeSize}

CatalogShapes == {tetrominoShapes[t] : t \in TetrominoType}

FnInputs ==
  {[fn |-> "findPath", arg |-> <<a, b>>, result |-> <<>>] : a \in GridCells, b \in GridCells}
  \cup {[fn |-> "rotate", arg |-> <<shape>>, result |-> <<>>] :
          shape \in SquareShapes \cup CatalogShapes}
  \cup {[fn |-> "reverseNibble", arg |-> <<n>>, result |-> <<>>] : n \in 0..MaxNibbleArg}

InitFn ==
  /\ Constructed({"PYRAMID"})
  /\ probe \in FnInputs

GameUnchanged ==
  UNCHANGED <<electrodes, needFilling, currentlyMoving, availableReservoirs,
              specialElectrodesLeft, specialElectrodesRight, currentBlocks,
              droppingTetro, finished, moving, aboutRotate, rotationState,
              newShape, pc, dispensing, sinkFails, packet, log, spawned, keys>>

ApplyFindPath ==
  /\ probe.fn = "findPath"
  /\ probe.result = <<>>
  /\ probe' = [probe EXCEPT !.result = <<findPath(probe.arg[1], probe.arg[2])>>]
  /\ GameUnchanged

\* rotate(shape, +1), then rotate(that, -1)
ApplyRotate ==
  /\ probe.fn = "rotate"
  /\ probe.result = <<>>
  /\ probe' = [probe EXCEPT !.result =
                 <<rotate(probe.arg[1], 1), rotate(rotate(probe.arg[1], 1), -1)>>]
  /\ GameUnchanged

\* reverseNibble(n), then reverseNibble of that
ApplyReverseNibble ==
  /\ probe.fn = "reverseNibble"
  /\ probe.result = <<>>
  /\ probe' = [probe EXCEPT !.result =
                 <<reverseNibble(probe.arg[1]),
                   reverseNibble(reverseNibble(probe.arg[1]))>>]
  /\ GameUnchanged

NextFn ==
  \/ ApplyFindPath
  \/ ApplyRotate
  \/ ApplyReverseNibble

SpecFn == InitFn /\ [][NextFn]_vars

(***************************************************************************)
(* Properties                                                              *)
(***************************************************************************)

\* C1: an update() that accepts a tick runs fillTick if the fill queue is
\* non-empty at that moment and the game tick otherwise, never both; when the
\* update completes, the one tick call comes first, then exactly one render,
\* then the final transmit.  So the game tick never runs on a non-empty queue.
C1_TickDecision ==
  [][/\ Tick =>
          IF Len(needFilling) > 0
          THEN log'[2] = "fillTick" /\ \A i \in 1..Len(log') : log'[i] # "tick"
          ELSE log'[2] = "tick" /\ \A i \in 1..Len(log') : log'[i] # "fillTick"
     /\ (pc \in {"idle", "dispense"} /\ pc' = "idle" /\ Head(log') = "newTick") =>
          LET n == Len(log')
          IN /\ Cardinality({i \in 1..n : log'[i] \in {"fillTick", "tick"}}) = 1
             /\ log'[2] \in {"fillTick", "tick"}
             /\ Cardinality({i \in 1..n : log'[i] = "render"}) = 1
             /\ n >= 4
             /\ log'[n - 1] = "render"
             /\ log'[n] = "transmit"]_vars

\* an accepted update ran the game tick, the piece landed and the next piece
\* was queued for filling
C1_Witness ==
  /\ pc = "idle"
  /\ Len(log) >= 4
  /\ log[1] = "newTick"
  /\ log[2] = "tick"
  /\ \E i \in 1..Len(log) : log[i] = "primeDroppingTetro"
  /\ Len(needFilling) > 0
  /\ log[Len(log)] = "transmit"

\* C2: every update() call that completes, with or without an accepted tick,
\* ends with a render followed by one transmit whose frame encodes the
\* rendered board; once finished is set an update changes nothing of the game
\* and transmits the same frame again.
C2_AlwaysRendersAndTransmits ==
  [][((DropTick /\ pc' = "idle") \/ FrameNoTick \/ DispenseReturn) =>
       /\ Len(log') >= 3
       /\ log'[Len(log') - 1] = "render"
       /\ log'[Len(log')] = "transmit"
       /\ electrodes' = gameRender([this EXCEPT !.electrodes =
             transposeElectrodes(gameElectrodesOf(
               [this EXCEPT !.currentBlocks = currentBlocks',
                            !.droppingTetro = droppingTetro',
                            !.needFilling = needFilling',
                            !.rotationState = rotationState'])),
             !.currentlyMoving = currentlyMoving']).electrodes
       /\ packet' = packetOf(specialElectrodesLeft', electrodes', specialElectrodesRight')
       /\ finished =>
            /\ finished'
            /\ packet' = packet
            /\ UNCHANGED <<electrodes, needFilling, currentlyMoving,
                           specialElectrodesLeft, specialElectrodesRight,
                           currentBlocks, droppingTetro, moving, aboutRotate,
                           rotationState, newShape>>]_vars

\* the game is over and an update without an accepted tick has rendered and
\* transmitted
C2_Witness ==
  /\ finished
  /\ pc = "idle"
  /\ log = <<"noTick", "render", "transmit">>
  /\ \E x \in DOMAIN currentBlocks[topLevel] : currentBlocks[topLevel][x]

\* C3: the frame handed over by transmit has exactly 32 bytes, byte 0 is the
\* left special-electrode value, byte 15 the right one, bytes 16..31 are zero.
C3_FrameSpecialBytes ==
  (log # <<>> /\ log[Len(log)] = "transmit") =>
     /\ DOMAIN packet = 0..31
     /\ packet[0] = specialElectrodesLeft
     /\ packet[15] = specialElectrodesRight
     /\ \A i \in 16..31 : packet[i] = 0

\* a frame of the dispense waveform of the bottom-left reservoir, whose
\* special bytes differ
C3_Witness ==
  /\ pc = "dispense"
  /\ log[Len(log)] = "transmit"
  /\ dispensing[1].reservoir = "BL"
  /\ dispensing[1].i = dispenseDropFrame + 1
  /\ packet[0] = 136
  /\ packet[15] = 24

\* C4: in the frame handed over by transmit, bit y of byte x+1 is set exactly
\* when electrodes[y][x] is active, for x in 0..13 and y in 0..7, and bytes
\* 1..14 hold no other bit.
C4_FrameGridBits ==
  (log # <<>> /\ log[Len(log)] = "transmit") =>
     \A x \in 0..13 :
        /\ packet[x + 1] \in 0..255
        /\ \A y \in 0..7 : ((packet[x + 1] \div (2 ^ y)) % 2 = 1) <=> electrodes[y][x]

\* a frame showing the whole falling piece, with active electrodes in more
\* than one row and more than one column
C4_Witness ==
  /\ pc = "idle"
  /\ log # <<>>
  /\ log[Len(log)] = "transmit"
  /\ Len(needFilling) = 0
  /\ \E x1, x2 \in 0..13, y1, y2 \in 0..7 :
        x1 # x2 /\ y1 # y2 /\ electrodes[y1][x1] /\ electrodes[y2][x2]

\* C5: findPath(a, b) has |a.x-b.x| + |a.y-b.y| cells, excludes a, ends at b
\* when a # b, moves one cell along one axis per step, gets strictly closer
\* to b at every step, repeats no cell, makes every horizontal step before
\* every vertical one, and is empty exactly when a = b.
C5_FindPath ==
  (probe.fn = "findPath" /\ probe.result # <<>>) =>
     LET a == probe.arg[1]
         b == probe.arg[2]
         p == probe.result[1]
         abs(n) == IF n < 0 THEN -n ELSE n
         dist(c) == abs(c.x - b.x) + abs(c.y - b.y)
         at(i) == IF i = 0 THEN a ELSE p[i]
         horizontal(i) == at(i).y = at(i - 1).y /\ abs(at(i).x - at(i - 1).x) = 1
         vertical(i) == at(i).x = at(i - 1).x /\ abs(at(i).y - at(i - 1).y) = 1
     IN /\ Len(p) = dist(a)
        /\ a # b => p[Len(p)] = b
        /\ \A i \in 1..Len(p) :
              /\ horizontal(i) \/ vertical(i)
              /\ dist(at(i)) < dist(at(i - 1))
        /\ \A i, j \in 0..Len(p) : i # j => at(i) # at(j)
        /\ \A i, j \in 1..Len(p) : (i < j /\ vertical(i)) => ~horizontal(j)
        /\ (Len(p) = 0) <=> (a = b)

\* a path that has both horizontal and vertical steps
C5_Witness ==
  /\ probe.fn = "findPath"
  /\ probe.result # <<>>
  /\ probe.arg[1].x # probe.arg[2].x
  /\ probe.arg[1].y # probe.arg[2].y
  /\ Len(probe.result[1]) >= 3

\* C6: rotate(rotate(shape, +1), -1) equals shape, for every shape given to
\* it, the seven catalog shapes included.
C6_RotateInverse ==
  (probe.fn = "rotate" /\ probe.result # <<>>) => probe.result[2] = probe.arg[1]

\* C7: the shape of the active piece is always a square matrix.
C7_ShapeSquare ==
  \A y \in DOMAIN droppingTetro.shape :
     length(droppingTetro.shape[y]) = length(droppingTetro.shape)

\* C8: on 0..15 reverseNibble is its own inverse, stays within 0..15, swaps
\* bit 0 with bit 3 and bit 1 with bit 2, and maps 1010 to 0101.
C8_ReverseNibble ==
  (probe.fn = "reverseNibble" /\ probe.result # <<>> /\ probe.arg[1] \in 0..15) =>
     LET n == probe.arg[1]
         r == probe.result[1]
         bit(v, k) == (v \div (2 ^ k)) % 2
     IN /\ probe.result[2] = n
        /\ r \in 0..15
        /\ bit(r, 0) = bit(n, 3)
        /\ bit(r, 3) = bit(n, 0)
        /\ bit(r, 1) = bit(n, 2)
        /\ bit(r, 2) = bit(n, 1)
        /\ n = 10 => r = 5

\* reverseNibble applied to 1010, and again to the result
C8_Witness ==
  /\ probe.fn = "reverseNibble"
  /\ probe.arg[1] = 10
  /\ probe.result = <<5, 10>>

\* C9: a valid rotate request is visible on the third game tick: the tick
\* that processes the request leaves the state at starting, the next one
\* reaches coalesce, the one after swaps the shape in; none of them earlier
\* (ticks in which the piece lands are left out).
C9_RotationThreeTicks ==
  [][(/\ Tick
      /\ Len(needFilling) = 0
      /\ ~finished
      /\ \A i \in 1..Len(log') : log'[i] # "finalizeTetromino") =>
       /\ (/\ aboutRotate
           /\ rotationState = "not-rotating"
           /\ isValidMove(this, droppingTetro.pos, rotate(droppingTetro.shape, 1))) =>
            /\ rotationState' = "starting"
            /\ droppingTetro'.shape = droppingTetro.shape
       /\ (rotationState = "starting" /\ ~aboutRotate) =>
            /\ rotationState' = "coalesce"
            /\ droppingTetro'.shape = droppingTetro.shape
       /\ (rotationState = "coalesce" /\ ~aboutRotate) =>
            /\ rotationState' = "ending"
            /\ droppingTetro'.shape = newShape]_vars

\* C10: a game tick that processes a rotate request whose rotated shape is
\* not valid at the current position drops the request: the flag is cleared,
\* the pending shape is untouched, the rotation state and the shape are what
\* the same tick leaves without a request (the move is attempted when not
\* rotating), and the update completes.
C10_InvalidRotationDropped ==
  [][(/\ Tick
      /\ Len(needFilling) = 0
      /\ ~finished
      /\ aboutRotate
      /\ ~isValidMove(this, droppingTetro.pos, rotate(droppingTetro.shape, 1))) =>
       LET spawns == \E i \in 1..Len(log') : log'[i] = "primeDroppingTetro"
       IN /\ aboutRotate' = FALSE
          /\ newShape' = newShape
          /\ pc' = "idle"
          /\ log'[3] = "testRotations:false"
          /\ rotationState # "coalesce"
          /\ rotationState' = "not-rotating"
          /\ ~spawns => droppingTetro'.shape = droppingTetro.shape
          /\ rotationState = "not-rotating" => log'[4] = "move"]_vars

\* a game tick has just dropped a rotate request and left the piece in play
C10_Witness ==
  /\ pc = "idle"
  /\ Len(log) >= 4
  /\ log[3] = "testRotations:false"
  /\ log[4] = "move"
  /\ ~aboutRotate
  /\ rotationState = "not-rotating"
  /\ newShape = <<>>
  /\ spawned = 0

\* C11: the rotation state only advances forward through not-rotating,
\* starting, coalesce, ending, not-rotating, by at most one transition per
\* game tick, whatever ticks and rotate requests arrive (a request during a
\* rotation included); steps other than game ticks leave it alone (ticks in
\* which the piece lands, which reset the state, are left out).
C11_RotationForward ==
  [][LET forward == [s \in {"not-rotating", "starting", "coalesce", "ending"} |->
                       CASE s = "not-rotating" -> "starting"
                         [] s = "starting" -> "coalesce"
                         [] s = "coalesce" -> "ending"
                         [] s = "ending" -> "not-rotating"]
         gameTick == Tick /\ Len(needFilling) = 0 /\ ~finished
         lands == \E i \in 1..Len(log') : log'[i] = "finalizeTetromino"
     IN /\ (gameTick /\ ~lands) =>
             rotationState' \in {rotationState, forward[rotationState]}
        /\ ~gameTick => rotationState' = rotationState]_vars

\* C12: in every reachable state every occupied cell of the active piece
\* lies inside the playable grid (0 <= x < 8, 0 <= y < 14), the static grid
\* keeps its 14 rows of 8 cells, so every static block lies inside it, and no
\* merge has written to a row outside it.
C12_InsideGrid ==
  /\ DOMAIN currentBlocks = 0..(gameSize.x - 1)
  /\ \A y \in DOMAIN currentBlocks : DOMAIN currentBlocks[y] = 0..(gameSize.y - 1)
  /\ \A c \in occupied(droppingTetro.shape) :
        /\ droppingTetro.pos.x + c[2] \in 0..7
        /\ droppingTetro.pos.y + c[1] \in 0..13
  /\ pc # "threw"

\* a piece moved to the left wall has landed on the floor and was merged into
\* the corner of the static grid
C12_Witness ==
  /\ currentBlocks[gameSize.x - 1][0]
  /\ \E i \in 1..Len(log) : log[i] = "finalizeTetromino"
  /\ pc = "idle"

\* C13: from the empty board, with the frame loop running, ticks accepted
\* and no key pressed, the game reaches game over whatever kinds are spawned;
\* finished is true exactly when a merge has left an occupied cell in row 3.
C13_GameOver ==
  /\ <>finished
  /\ [](finished <=> \E x \in 0..(gameSize.y - 1) : currentBlocks[3][x])

\* the merge of the sixth piece has reached row 3 and ended the game
C13_Witness ==
  /\ finished
  /\ \E i \in 1..Len(log) : log[i] = "Game Over!"
  /\ \E x \in 0..(gameSize.y - 1) : currentBlocks[3][x]
  /\ \A x \in 0..(gameSize.y - 1) : ~currentBlocks[2][x] \/ currentBlocks[3][x]
  /\ spawned = MaxDropPieces - 1

\* C14: once finished is true it stays true, and no later update, tick,
\* setMovement call or rotate request changes the piece's position or shape,
\* the rotation state, the static grid, the fill queue or the stored
\* movement direction.
C14_FinishedFrozen ==
  [][finished =>
       /\ finished'
       /\ droppingTetro'.pos = droppingTetro.pos
       /\ droppingTetro'.shape = droppingTetro.shape
       /\ rotationState' = rotationState
       /\ currentBlocks' = currentBlocks
       /\ needFilling' = needFilling
       /\ moving' = moving]_vars

\* the game has ended, keys were pressed afterwards (a rotate request among
\* them) and a later update with an accepted tick has completed
C14_Witness ==
  /\ finished
  /\ keys >= 2
  /\ aboutRotate
  /\ moving = "DOWN"
  /\ log = <<"newTick", "tick", "render", "transmit">>

(***************************************************************************)
(* The methods dispense and updateReservoirState of a Game called on their *)
(* own: the board is cleared, the reservoir state bytes hold what earlier  *)
(* updateReservoirState calls with nibbles 0..15 left there, and one call  *)
(* is made with arguments drawn from bounded sets.                         *)
(***************************************************************************)
ApiNibbles == {0, 1, 8, 15}

ApiBytes == {16 * h + l : h \in ApiNibbles, l \in ApiNibbles}

ApiInputs ==
  {[fn |-> "dispense", arg |-> <<r>>, result |-> <<>>] : r \in Reservoirs}
  \cup {[fn |-> "updateReservoirState", arg |-> <<r, n>>, result |-> <<>>] :
          r \in Reservoirs, n \in 0..MaxNibbleArg}

InitApi ==
  /\ electrodes = Filled(gameSize.y, gameSize.x)
  /\ needFilling = <<>>
  /\ currentlyMoving = <<>>
  /\ availableReservoirs = <<"TL", "BL", "TR", "BR">>
  /\ specialElectrodesLeft \in ApiBytes
  /\ specialElectrodesRight \in ApiBytes
  /\ currentBlocks = Filled(gameSize.x, gameSize.y)
  /\ droppingTetro = Tetromino("PYRAMID", tetroSpawnPosition)
  /\ finished = FALSE
  /\ moving = "DOWN"
  /\ aboutRotate = FALSE
  /\ rotationState = "not-rotating"
  /\ newShape = <<>>
  /\ pc = "call"
  /\ dispensing = <<>>
  /\ sinkFails = FALSE
  /\ packet = packetOf(0, Filled(gameSize.y, gameSize.x), 0)
  /\ log = <<>>
  /\ spawned = 0
  /\ keys = 0
  /\ probe \in ApiInputs

\* dispense(reservoir) is called and runs up to its first wait
ApiDispense ==
  /\ pc = "call"
  /\ probe.fn = "dispense"
  /\ Becomes(dispenseBegin(this, probe.arg[1]))
  /\ UNCHANGED <<keys, probe>>

\* the last wait of dispense ends: it returns dropLocation to its caller
ApiDispenseReturn ==
  /\ pc = "dispense"
  /\ dispensing[1].i = length(dispenseSequence) + 1
  /\ Becomes([this EXCEPT !.pc = "returned", !.dispensing = <<>>])
  /\ probe' = [probe EXCEPT
                 !.result = <<getDispenseLocation(dispensing[1].reservoir)>>]
  /\ UNCHANGED keys

\* updateReservoirState(reservoirId, nibble) is called and returns
ApiUpdateReservoirState ==
  /\ pc = "call"
  /\ probe.fn = "updateReservoirState"
  /\ Becomes([updateReservoirState(this, probe.arg[1], probe.arg[2])
                EXCEPT !.pc = "returned"])
  /\ UNCHANGED <<keys, probe>>

NextApi ==
  \/ ApiDispense
  \/ DispenseStep
  \/ DispenseCleanup
  \/ ApiDispenseReturn
  \/ ApiUpdateReservoirState

SpecApi == InitApi /\ [][NextApi]_vars

\* C15: at every step 0..6 of the waveform and for the default nibble that
\* ends it, a top reservoir (TL, TR) holds 1000, 1100, 0111, 0001, 1100, 1010,
\* 1010 and then 1000 in its half-byte, and a bottom reservoir (BL, BR) holds
\* the bit-reversed form of the value of the same step.
C15_BottomReversed ==
  (pc = "dispense" /\ dispensing[1].i >= 1) =>
     LET r == dispensing[1].reservoir
         top == <<8, 12, 7, 1, 12, 10, 10, 8>>[dispensing[1].i]
         bit(v, k) == (v \div (2 ^ k)) % 2
         reversed == 8 * bit(top, 0) + 4 * bit(top, 1) + 2 * bit(top, 2) + bit(top, 3)
     IN /\ r = "TL" => specialElectrodesLeft % 16 = top
        /\ r = "TR" => specialElectrodesRight % 16 = top
        /\ r = "BL" => specialElectrodesLeft \div 16 = reversed
        /\ r = "BR" => specialElectrodesRight \div 16 = reversed

\* the dispense from BR waits after step 2, with 1110 (0111 reversed) in the
\* high half of the right byte
C15_Witness ==
  /\ pc = "dispense"
  /\ dispensing[1].reservoir = "BR"
  /\ dispensing[1].i = 3
  /\ specialElectrodesRight \div 16 = 14

\* C16: one call dispense(r) transmits nine frames: one with the nibble of r
\* at 0000, one per waveform step in order, one with the default nibble; the
\* first and the last are followed by the cleanup wait, each step by the
\* movement wait; the drop cell is set active at step 3 and at no other step,
\* before the frame of that step is built; the call returns the drop cell.
C16_NineFrames ==
  [][LET frames(l) == Cardinality({k \in 1..Len(l) : l[k] = "transmit"})
         r == IF pc = "call" THEN probe.arg[1] ELSE dispensing[1].reservoir
         drop == CASE r = "TL" -> Vec(0, 1)
                   [] r = "BL" -> Vec(0, 6)
                   [] r = "TR" -> Vec(12, 1)
                   [] r = "BR" -> Vec(12, 6)
         bottom == r \in {"BL", "BR"}
         byte == IF r \in {"TL", "BL"} THEN packet'[0] ELSE packet'[15]
         sent == IF bottom THEN byte \div 16 ELSE byte % 16
         fresh == packet' = packetOf(specialElectrodesLeft', electrodes',
                                     specialElectrodesRight')
     IN /\ (pc = "call" /\ probe.fn = "dispense") =>
             /\ pc' = "dispense"
             /\ dispensing' = <<[reservoir |-> r, i |-> 0, wait |-> "cleanupDelay"]>>
             /\ frames(log') = 1
             /\ fresh
             /\ sent = 0
             /\ electrodes' = electrodes
        /\ (pc = "dispense" /\ dispensing[1].i <= 6) =>
             LET i == dispensing[1].i
             IN /\ pc' = "dispense"
                /\ dispensing' = <<[reservoir |-> r, i |-> i + 1,
                                    wait |-> "movementDelay"]>>
                /\ frames(log') = i + 2
                /\ fresh
                /\ sent = (IF bottom THEN <<1, 3, 14, 8, 3, 5, 5>>
                                     ELSE <<8, 12, 7, 1, 12, 10, 10>>)[i + 1]
                /\ electrodes' = IF i = 3
                                 THEN [electrodes EXCEPT ![drop.y][drop.x] = TRUE]
                                 ELSE electrodes
                /\ i = 3 => (packet'[1 + drop.x] \div (2 ^ drop.y)) % 2 = 1
        /\ (pc = "dispense" /\ dispensing[1].i = 7) =>
             /\ pc' = "dispense"
             /\ dispensing' = <<[reservoir |-> r, i |-> 8, wait |-> "cleanupDelay"]>>
             /\ frames(log') = 9
             /\ fresh
             /\ sent = (IF bottom THEN 1 ELSE 8)
             /\ electrodes' = electrodes
        /\ (pc = "dispense" /\ dispensing[1].i = 8) =>
             /\ pc' = "returned"
             /\ probe'.result = <<drop>>
             /\ log' = log
             /\ frames(log') = 9
             /\ packet' = packet
             /\ electrodes' = electrodes]_vars

\* dispense(TR) has returned its drop cell after nine frames
C16_Witness ==
  /\ pc = "returned"
  /\ probe.fn = "dispense"
  /\ probe.arg = <<"TR">>
  /\ probe.result = <<Vec(12, 1)>>
  /\ Cardinality({k \in 1..Len(log) : log[k] = "transmit"}) = 9
  /\ electrodes[1][12]

\* C17: updateReservoirState keeps only the low 4 bits of its nibble argument
\* for each of the four reservoirs, also for arguments above 15, so both
\* reservoir state bytes stay within 0..255.
C17_NibbleMasked ==
  /\ specialElectrodesLeft \in 0..255
  /\ specialElectrodesRight \in 0..255
  /\ (pc = "returned" /\ probe.fn = "updateReservoirState") =>
        LET r == probe.arg[1]
            n == probe.arg[2]
        IN /\ r = "TL" => specialElectrodesLeft % 16 = n % 16
           /\ r = "TR" => specialElectrodesRight % 16 = n % 16
           /\ r = "BL" => specialElectrodesLeft \div 16 = n % 16
           /\ r = "BR" => specialElectrodesRight \div 16 = n % 16

(***************************************************************************)
(* The game with a sink that may start to fail while the game runs: from   *)
(* some moment on the onTransmit callback throws whenever transmit invokes *)
(* it.                                                                     *)
(***************************************************************************)
SinkBreaks ==
  /\ pc \in {"idle", "dispense"}
  /\ ~sinkFails
  /\ Becomes([this EXCEPT !.sinkFails = TRUE])
  /\ UNCHANGED <<keys, probe>>

NextSink ==
  \/ InitClear
  \/ InitPrime
  \/ Tick
  \/ FrameNoTick
  \/ DispenseStep
  \/ DispenseCleanup
  \/ DispenseReturn
  \/ SinkBreaks

SpecSink == Init /\ [][NextSink]_vars

\* C18: a sink callback that throws when transmit invokes it does not affect
\* the engine: the call that transmitted (init, update, fill tick, dispense)
\* goes on as after a transmit that succeeded, and later updates still run.
C18_SinkFailureAbsorbed ==
  [][sinkFails => pc' \in {"idle", "dispense"}]_vars

C20_DispenseExclusive ==
  [][pc = "dispense" =>
       LET gameSame ==
             UNCHANGED <<needFilling, availableReservoirs, currentBlocks,
                         droppingTetro, finished, rotationState, newShape,
                         moving, aboutRotate, spawned>>
       IN \/ UNCHANGED <<electrodes, needFilling, currentlyMoving,
                         availableReservoirs, specialElectrodesLeft,
                         specialElectrodesRight, currentBlocks, droppingTetro,
                         finished, rotationState, newShape, pc, dispensing,
                         packet, log, spawned>>
          \/ /\ gameSame
             /\ pc' = "dispense"
             /\ dispensing'[1].reservoir = dispensing[1].reservoir
             /\ dispensing'[1].i = dispensing[1].i + 1
             /\ currentlyMoving' = currentlyMoving
             /\ log' = Append(log, "transmit")
          \/ /\ gameSame
             /\ dispensing[1].i = length(dispenseSequence) + 1
             /\ pc' = "idle"
             /\ dispensing' = <<>>
             /\ log' = log \o <<"render", "transmit">>]_vars

\* keys were handled and the waveform waits after its drop frame
C20_Witness ==
  /\ pc = "dispense"
  /\ dispensing[1].i = dispenseDropFrame + 1
  /\ dispensing[1].wait = "movementDelay"
  /\ moving = "LEFT"
  /\ aboutRotate
  /\ keys = 2

\* C21: updateReservoirState(r, n) with n in 0..15 writes n into one
\* half-byte: the low half of the left byte for TL, its high half for BL,
\* the low half of the right byte for TR, its high half for BR; the other
\* half of that byte, the other byte, the electrode matrix and the fill
\* queue are unchanged.
C21_OneHalfByte ==
  [][(pc = "call" /\ probe.fn = "updateReservoirState" /\ probe.arg[2] \in 0..15) =>
       LET r == probe.arg[1]
           n == probe.arg[2]
           low(b) == b % 16
           high(b) == b \div 16
       IN /\ pc' = "returned"
          /\ electrodes' = electrodes
          /\ needFilling' = needFilling
          /\ r = "TL" => /\ low(specialElectrodesLeft') = n
                         /\ high(specialElectrodesLeft') = high(specialElectrodesLeft)
                         /\ specialElectrodesRight' = specialElectrodesRight
          /\ r = "BL" => /\ high(specialElectrodesLeft') = n
                         /\ low(specialElectrodesLeft') = low(specialElectrodesLeft)
                         /\ specialElectrodesRight' = specialElectrodesRight
          /\ r = "TR" => /\ low(specialElectrodesRight') = n
                         /\ high(specialElectrodesRight') = high(specialElectrodesRight)
                         /\ specialElectrodesLeft' = specialElectrodesLeft
          /\ r = "BR" => /\ high(specialElectrodesRight') = n
                         /\ low(specialElectrodesRight') = low(specialElectrodesRight)
                         /\ specialElectrodesLeft' = specialElectrodesLeft]_vars

\* updateReservoirState(BL, 5) has returned: the left byte holds 0101 above
\* the 1111 it held below, the right byte is as it was
C21_Witness ==
  /\ pc = "returned"
  /\ probe.fn = "updateReservoirState"
  /\ probe.arg = <<"BL", 5>>
  /\ specialElectrodesLeft = 95
  /\ specialElectrodesRight = 24

\* C22: the fill queue is consumed from its head, one droplet at a time: an
\* entry leaves the queue only as its head, only in a fill tick in which the
\* droplet in transit steps onto the head cell, and that tick clears the
\* in-transit marker; a fill tick with a droplet in transit away from the
\* head moves it one cell, one closer (Manhattan distance) to the head; a
\* fill tick with no droplet in transit starts a dispense and neither moves
\* nor removes anything, and the dispense leaves the queue alone.
C22_FillQueueFifo ==
  [][LET fillStep == /\ pc = "idle"
                     /\ keys' = keys
                     /\ Len(needFilling) > 0
                     /\ log'[1] = "newTick"
         abs(n) == IF n < 0 THEN -n ELSE n
         manhattan(a, b) == abs(a.x - b.x) + abs(a.y - b.y)
         head == needFilling[1]
         cur == currentlyMoving[1]
     IN /\ needFilling' # needFilling =>
             \/ Len(needFilling) = 0
             \/ /\ fillStep
                /\ currentlyMoving # <<>>
                /\ manhattan(cur, head) = 1
                /\ needFilling' = Tail(needFilling)
                /\ currentlyMoving' = <<>>
                /\ electrodes'[head.y][head.x]
        /\ (fillStep /\ currentlyMoving # <<>> /\ cur # head) =>
             IF manhattan(cur, head) = 1
             THEN needFilling' = Tail(needFilling) /\ currentlyMoving' = <<>>
             ELSE /\ needFilling' = needFilling
                  /\ currentlyMoving' # <<>>
                  /\ manhattan(cur, currentlyMoving'[1]) = 1
                  /\ manhattan(currentlyMoving'[1], head) = manhattan(cur, head) - 1
                  /\ electrodes'[currentlyMoving'[1].y][currentlyMoving'[1].x]
        /\ (fillStep /\ currentlyMoving = <<>>) =>
             /\ pc' = "dispense"
             /\ needFilling' = needFilling
             /\ currentlyMoving' = <<>>
        /\ pc = "dispense" =>
             /\ needFilling' = needFilling
             /\ \/ currentlyMoving' = currentlyMoving
                \/ /\ pc' = "idle"
                   /\ currentlyMoving = <<>>
                   /\ currentlyMoving' =
                        <<getDispenseLocation(dispensing[1].reservoir)>>]_vars

\* a droplet has just stepped onto the head of the queue: three entries are
\* left, none is in transit
C22_Witness ==
  /\ pc = "idle"
  /\ log = <<"newTick", "fillTick", "render", "transmit">>
  /\ Len(needFilling) = 3
  /\ currentlyMoving = <<>>
  /\ spawned = 0

(***************************************************************************)
(* The game with no key events in which the owner of the object rewrites   *)
(* the public field availableReservoirs between frames.                    *)
(***************************************************************************)
ReservoirLists == {<<>>, <<"TL", "BL">>}

\* an assignment to game.availableReservoirs made between two frames
SetAvailableReservoirs ==
  /\ pc = "idle"
  /\ \E list \in ReservoirLists :
       /\ list # availableReservoirs
       /\ Becomes([this EXCEPT !.availableReservoirs = list])
  /\ UNCHANGED <<keys, probe>>

NextDry ==
  \/ InitClear
  \/ InitPrime
  \/ Tick
  \/ FrameNoTick
  \/ DispenseStep
  \/ DispenseCleanup
  \/ DispenseReturn
  \/ SetAvailableReservoirs

SpecDry == Init /\ [][NextDry]_vars

\* C23: a tick accepted with entries in the fill queue, no droplet in
\* transit and no reservoir in the availability list is a fill tick that
\* changes nothing: queue, in-transit marker, both special bytes and the
\* electrode matrix are as before, no dispense is started and no frame of a
\* dispense waveform is sent (the update sends its one regular frame), and
\* no game tick runs; as nothing changed, the next tick finds the same
\* condition until the list is assigned.
C23_NoReservoirNoProgress ==
  [][(/\ pc = "idle"
      /\ Len(needFilling) > 0
      /\ currentlyMoving = <<>>
      /\ Len(availableReservoirs) = 0
      /\ availableReservoirs' = availableReservoirs
      /\ log'[1] = "newTick") =>
       /\ log' = <<"newTick", "fillTick", "No available reservoir",
                   "render", "transmit">>
       /\ pc' = "idle"
       /\ dispensing' = <<>>
       /\ needFilling' = needFilling
       /\ currentlyMoving' = <<>>
       /\ specialElectrodesLeft' = specialElectrodesLeft
       /\ specialElectrodesRight' = specialElectrodesRight
       /\ electrodes' = electrodes
       /\ currentBlocks' = currentBlocks
       /\ droppingTetro' = droppingTetro
       /\ spawned' = spawned]_vars

\* a tick has found no reservoir while the second cell of a piece waits
C23_Witness ==
  /\ pc = "idle"
  /\ log = <<"newTick", "fillTick", "No available reservoir",
             "render", "transmit">>
  /\ Len(needFilling) = 3
  /\ currentlyMoving = <<>>
  /\ availableReservoirs = <<>>

\* C24: in a game tick the piece, as it is after the move or the rotation
\* step, has landed exactly when one of its occupied cells has the floor or
\* an occupied static cell directly below it.  A landing resets the rotation
\* state, merges the piece's current shape at its current position into the
\* static grid, and sets finished exactly when row 3 of the merged grid has an
\* occupied cell; when not finished a new catalog piece is at the spawn
\* position and the fill queue holds exactly its occupied cells; when
\* finished nothing is spawned and the fill queue stays empty.  Without a
\* landing nothing is merged, spawned or queued.
C24_Landing ==
  [][(/\ pc = "idle"
      /\ Len(needFilling) = 0
      /\ ~finished
      /\ keys' = keys
      /\ log'[1] = "newTick") =>
       LET pos == droppingTetro.pos
           shape == droppingTetro.shape
           accepted == aboutRotate /\ isValidMove(this, pos, rotate(shape, 1))
           state == IF accepted THEN "starting" ELSE rotationState
           stepShape == IF state = "coalesce" THEN newShape ELSE shape
           newPos == Vec(pos.x + (CASE moving = "LEFT" -> -1
                                    [] moving = "RIGHT" -> 1
                                    [] moving = "DOWN" -> 0),
                         pos.y + (IF moving = "DOWN" THEN 1 ELSE 0))
           stepPos == IF state = "not-rotating" /\ isValidMove(this, newPos, shape)
                      THEN newPos ELSE pos
           cells == {<<stepPos.y + c[1], stepPos.x + c[2]>> : c \in occupied(stepShape)}
           landed == \E c \in cells :
                        \/ c[1] + 1 > gameSize.x - 1
                        \/ currentBlocks[c[1] + 1][c[2]]
           merged == [y \in 0..(gameSize.x - 1) |->
                        [x \in 0..(gameSize.y - 1) |->
                           currentBlocks[y][x] \/ <<y, x>> \in cells]]
           over == \E x \in 0..(gameSize.y - 1) : merged[3][x]
           spawnCells == {Vec(tetroSpawnPosition.y + c[1],
                              gameSize.y - 1 - (tetroSpawnPosition.x + c[2])) :
                            c \in occupied(droppingTetro'.shape)}
       IN /\ pc' = "idle"
          /\ landed <=> \E i \in 1..Len(log') : log'[i] = "finalizeTetromino"
          /\ IF landed
             THEN /\ rotationState' = "not-rotating"
                  /\ currentBlocks' = merged
                  /\ finished' = over
                  /\ IF over
                     THEN /\ droppingTetro'.pos = stepPos
                          /\ droppingTetro'.shape = stepShape
                          /\ needFilling' = <<>>
                          /\ spawned' = spawned
                     ELSE /\ \E type \in TetrominoType :
                               droppingTetro' = Tetromino(type, tetroSpawnPosition)
                          /\ tetroSpawnPosition = Vec(2, 1)
                          /\ {needFilling'[i] : i \in 1..Len(needFilling')} = spawnCells
                          /\ Len(needFilling') = Cardinality(spawnCells)
                          /\ spawned' = spawned + 1
             ELSE /\ currentBlocks' = currentBlocks
                  /\ ~finished'
                  /\ droppingTetro'.pos = stepPos
                  /\ droppingTetro'.shape = stepShape
                  /\ needFilling' = <<>>
                  /\ spawned' = spawned]_vars

\* a piece has landed on a static block, not on the floor, and the next piece
\* is queued at the spawn position
C24_Witness ==
  /\ pc = "idle"
  /\ \E i \in 1..Len(log) : log[i] = "finalizeTetromino"
  /\ ~finished
  /\ spawned = 2
  /\ droppingTetro.pos = tetroSpawnPosition
  /\ Len(needFilling) = 4
  /\ \E x \in 0..(gameSize.y - 1) : currentBlocks[11][x]

(***************************************************************************)
(* Corner pieces steered with up to MaxWallKeys key events: enough to push *)
(* a piece against a side wall and against the blocks of the piece before. *)
(***************************************************************************)
MaxWallKeys == 4

MaxWallPieces == 2

WallKinds == {"LEFT_CORNER"}

InitWall ==
  /\ Constructed(WallKinds)
  /\ probe = [fn |-> "none"]

WallTick == FrameTick(WallKinds, MaxWallPieces)

\* handleKeyPress: ArrowLeft / a, ArrowRight / d
WallKeyMove(direction) ==
  /\ pc \in {"idle", "dispense"}
  /\ keys < MaxWallKeys
  /\ keys' = keys + 1
  /\ Becomes(setMovement(this, direction))
  /\ UNCHANGED probe

WallKeyLeft == WallKeyMove("LEFT")

WallKeyRight == WallKeyMove("RIGHT")

\* handleKeyPress: r
WallKeyRotate ==
  /\ pc \in {"idle", "dispense"}
  /\ keys < MaxWallKeys
  /\ keys' = keys + 1
  /\ Becomes([this EXCEPT !.aboutRotate = TRUE])
  /\ UNCHANGED probe

NextWall ==
  \/ InitClear
  \/ InitPrime
  \/ WallTick
  \/ FrameNoTick
  \/ DispenseStep
  \/ DispenseCleanup
  \/ DispenseReturn
  \/ WallKeyLeft
  \/ WallKeyRight
  \/ WallKeyRotate

SpecWall == InitWall /\ [][NextWall]_vars

\* C25: in a game tick whose rotation state, once the rotate request is
\* processed, is not-rotating, the piece moves one cell in the stored
\* direction exactly when every occupied cell at the candidate position is
\* inside the grid and off the static blocks; otherwise it stays where it is
\* and the tick completes as usual; either way the stored direction is down
\* afterwards.  In a tick whose rotation state is not not-rotating the piece
\* stays where it is and the stored direction is kept.  (A piece that lands
\* in the tick is merged where the step left it.)
C25_MoveOrStay ==
  [][(/\ pc = "idle"
      /\ Len(needFilling) = 0
      /\ ~finished
      /\ keys' = keys
      /\ log'[1] = "newTick") =>
       LET pos == droppingTetro.pos
           shape == droppingTetro.shape
           accepted == aboutRotate /\ isValidMove(this, pos, rotate(shape, 1))
           state == IF accepted THEN "starting" ELSE rotationState
           candidate == CASE moving = "LEFT" -> Vec(pos.x - 1, pos.y)
                          [] moving = "RIGHT" -> Vec(pos.x + 1, pos.y)
                          [] moving = "DOWN" -> Vec(pos.x, pos.y + 1)
           free == \A c \in occupied(shape) :
                      /\ candidate.x + c[2] \in 0..(gameSize.y - 1)
                      /\ candidate.y + c[1] \in 0..(gameSize.x - 1)
                      /\ ~currentBlocks[candidate.y + c[1]][candidate.x + c[2]]
           after == IF state = "not-rotating" /\ free THEN candidate ELSE pos
           lands == \E i \in 1..Len(log') : log'[i] = "finalizeTetromino"
           attempted == \E i \in 1..Len(log') : log'[i] = "move"
       IN /\ pc' = "idle"
          /\ attempted <=> state = "not-rotating"
          /\ moving' = IF state = "not-rotating" THEN "DOWN" ELSE moving
          /\ IF lands
             THEN \A c \in occupied(shape) :
                     state = "not-rotating" =>
                       currentBlocks'[after.y + c[1]][after.x + c[2]]
             ELSE droppingTetro'.pos = after]_vars

\* a move to the left was refused at the left wall: the piece is in column 0
\* and has not come down in that tick
C25_Witness ==
  /\ pc = "idle"
  /\ log = <<"newTick", "tick", "move", "render", "transmit">>
  /\ droppingTetro.pos = Vec(0, 2)
  /\ keys = 3
  /\ moving = "DOWN"
  /\ rotationState = "not-rotating"
  /\ ~aboutRotate
  /\ newShape = <<>>
  /\ spawned = 0

\* C26: after a render the electrode matrix is the transposed image of the
\* board: electrode (ey, ex) stands for the cell in row ex, column 7 - ey, and
\* is active exactly when that cell is a static block, or is drawn for the
\* active piece, or carries the droplet in transit.  For the active piece,
\* with entries in the fill queue its occupied cells that are not queued are
\* drawn; with the queue empty the whole piece is drawn, except in rotation
\* state coalesce, where the single cell at position + (1, 1) is drawn
\* instead.  The electrode of a queued piece cell is active only while the
\* droplet in transit to the head of the queue is on that cell.
C26_RenderImage ==
  (pc = "idle" /\ \E i \in 1..Len(log) : log[i] = "render") =>
    LET pos == droppingTetro.pos
        pieceCell(r, c) ==
          /\ r - pos.y \in DOMAIN droppingTetro.shape
          /\ c - pos.x \in DOMAIN droppingTetro.shape[r - pos.y]
          /\ droppingTetro.shape[r - pos.y][c - pos.x]
        queuedCell(r, c) ==
          \E i \in 1..Len(needFilling) :
             needFilling[i].x = r /\ needFilling[i].y = gameSize.y - 1 - c
        drawn(r, c) ==
          IF Len(needFilling) > 0 THEN pieceCell(r, c) /\ ~queuedCell(r, c)
          ELSE IF rotationState = "coalesce" THEN r = pos.y + 1 /\ c = pos.x + 1
          ELSE pieceCell(r, c)
        droplet(r, c) ==
          /\ currentlyMoving # <<>>
          /\ currentlyMoving[1].x = r
          /\ currentlyMoving[1].y = gameSize.y - 1 - c
    IN /\ DOMAIN electrodes = 0..(gameSize.y - 1)
       /\ \A ey \in 0..(gameSize.y - 1) :
            /\ DOMAIN electrodes[ey] = 0..(gameSize.x - 1)
            /\ \A ex \in 0..(gameSize.x - 1) :
                 electrodes[ey][ex] <=>
                   \/ currentBlocks[ex][gameSize.y - 1 - ey]
                   \/ drawn(ex, gameSize.y - 1 - ey)
                   \/ droplet(ex, gameSize.y - 1 - ey)
       /\ \A i \in 1..Len(needFilling) :
            electrodes[needFilling[i].y][needFilling[i].x] =>
              /\ i > 1
              /\ currentlyMoving = <<needFilling[i]>>

\* the statement as claimed: in a rendered frame the electrode of a piece
\* cell that is still in the fill queue is never active
C26_QueuedNeverActive ==
  (pc = "idle" /\ \E i \in 1..Len(log) : log[i] = "render") =>
    \A i \in 1..Len(needFilling) :
       ~electrodes[needFilling[i].y][needFilling[i].x]

\* a rendered frame in which the droplet on its way to the head of the queue
\* is on a piece cell queued behind the head
C26_Witness ==
  /\ pc = "idle"
  /\ log = <<"newTick", "fillTick", "render", "transmit">>
  /\ \E i \in 2..Len(needFilling) :
       /\ currentlyMoving = <<needFilling[i]>>
       /\ electrodes[needFilling[i].y][needFilling[i].x]

\* C27: while finished is false rows 0 to 3 of the static grid are empty,
\* so a piece of any kind placed at the spawn position (2, 1) has all its
\* occupied cells inside the grid and on no static block.
C27_SpawnAreaFree ==
  ~finished =>
    /\ \A y \in 0..3 : \A x \in 0..(gameSize.y - 1) : ~currentBlocks[y][x]
    /\ \A type \in TetrominoType :
         \A c \in occupied(tetrominoShapes[type]) :
            /\ 2 + c[2] \in 0..(gameSize.y - 1)
            /\ 1 + c[1] \in 0..3
            /\ ~currentBlocks[1 + c[1]][2 + c[2]]
    /\ tetroSpawnPosition = Vec(2, 1)

\* the stack has reached row 4, the game goes on and the next piece has been
\* placed at the spawn position
C27_Witness ==
  /\ ~finished
  /\ \E x \in 0..(gameSize.y - 1) : currentBlocks[4][x]
  /\ droppingTetro.pos = tetroSpawnPosition
  /\ Len(needFilling) = 4
  /\ pc = "idle"

\* C28: while finished is false every occupied cell of the active piece is
\* inside the grid and on no occupied static cell, after a spawn, a move or
\* the shape swap of a rotation; and the rotated shape waiting to be swapped
\* in (rotation state coalesce) fits at the piece's position in the same
\* way, so the swap keeps the piece off the static blocks.
C28_NoOverlap ==
  ~finished =>
    LET pos == droppingTetro.pos
        fits(shape) ==
          \A y \in DOMAIN shape : \A x \in DOMAIN shape[y] :
             shape[y][x] =>
               /\ pos.x + x \in 0..(gameSize.y - 1)
               /\ pos.y + y \in 0..(gameSize.x - 1)
               /\ ~currentBlocks[pos.y + y][pos.x + x]
    IN /\ fits(droppingTetro.shape)
       /\ rotationState = "coalesce" => fits(newShape)

\* after a move tick the second piece has a cell right beside a static
\* block, and has not landed
C28_Witness ==
  /\ ~finished
  /\ pc = "idle"
  /\ spawned = 1
  /\ log = <<"newTick", "tick", "move", "render", "transmit">>
  /\ \E y \in DOMAIN droppingTetro.shape : \E x \in DOMAIN droppingTetro.shape[y] :
       /\ droppingTetro.shape[y][x]
       /\ \E d \in {-1, 1} :
            /\ droppingTetro.pos.x + x + d \in 0..(gameSize.y - 1)
            /\ currentBlocks[droppingTetro.pos.y + y][droppingTetro.pos.x + x + d]

\* C29: fill targets and rendered piece cells are the same electrodes.  The
\* fill queue holds only cells (x = r, y = 7 - c) of occupied cells (column
\* c, row r) of the current active piece, each at most once; a rendered frame
\* of the whole piece has electrode (row 7 - c, column r) active for each of
\* them; and in the fill tick that pops the head of the queue the frame
\* rendered in that tick has the electrode of the popped cell active, as a
\* cell of the piece that is no longer queued.
C29_SameElectrode ==
  /\ [](LET pos == droppingTetro.pos
            cells == {Vec(pos.y + c[1], 7 - (pos.x + c[2])) :
                        c \in occupied(droppingTetro.shape)}
        IN /\ \A i \in 1..Len(needFilling) : needFilling[i] \in cells
           /\ \A i, j \in 1..Len(needFilling) :
                 i # j => needFilling[i] # needFilling[j]
           /\ (/\ pc = "idle"
               /\ \E i \in 1..Len(log) : log[i] = "render"
               /\ Len(needFilling) = 0
               /\ rotationState # "coalesce") =>
                \A cell \in cells : electrodes[cell.y][cell.x])
  /\ [][(needFilling # <<>> /\ needFilling' = Tail(needFilling)) =>
          LET head == needFilling[1]
          IN /\ log' = <<"newTick", "fillTick", "render", "transmit">>
             /\ droppingTetro' = droppingTetro
             /\ \E c \in occupied(droppingTetro.shape) :
                   /\ head.x = droppingTetro.pos.y + c[1]
                   /\ head.y = 7 - (droppingTetro.pos.x + c[2])
             /\ \A i \in 1..Len(needFilling') : needFilling'[i] # head
             /\ currentlyMoving' = <<>>
             /\ electrodes'[head.y][head.x]]_vars

\* the last droplet of a piece has arrived: the queue is empty and the frame
\* rendered in that fill tick shows the four cells of the piece
C29_Witness ==
  /\ pc = "idle"
  /\ log = <<"newTick", "fillTick", "render", "transmit">>
  /\ Len(needFilling) = 0
  /\ currentlyMoving = <<>>
  /\ Cardinality({c \in (0..(gameSize.y - 1)) \X (0..(gameSize.x - 1)) :
                    electrodes[c[1]][c[2]]}) = 4
  /\ \A c \in occupied(droppingTetro.shape) :
        electrodes[7 - (droppingTetro.pos.x + c[2])][droppingTetro.pos.y + c[1]]

\* C30: once init has run, whenever no dispense waveform is in progress both
\* special bytes are 0b00011000 = 24, and so are bytes 0 and 15 of every
\* frame that update transmits then, the one that follows a completed
\* dispense included; while a waveform is in progress the nibbles of the
\* three other reservoirs keep their defaults (1000 top, 0001 bottom).
C30_SpecialBytesDefault ==
  /\ pc = "idle" =>
       /\ specialElectrodesLeft = 24
       /\ specialElectrodesRight = 24
       /\ (\E i \in 1..Len(log) : log[i] = "render") =>
            packet[0] = 24 /\ packet[15] = 24
  /\ pc = "dispense" =>
       LET reservoir == dispensing[1].reservoir
       IN /\ reservoir # "TL" => specialElectrodesLeft % 16 = 8
          /\ reservoir # "BL" => specialElectrodesLeft \div 16 = 1
          /\ reservoir # "TR" => specialElectrodesRight % 16 = 8
          /\ reservoir # "BR" => specialElectrodesRight \div 16 = 1

\* the update in which the bottom left reservoir dispensed has completed and
\* sent its frame: the droplet is on that reservoir's drop cell
C30_Witness ==
  /\ pc = "idle"
  /\ currentlyMoving = <<getDispenseLocation("BL")>>
  /\ log[Len(log)] = "transmit"
  /\ log[Len(log) - 1] = "render"
  /\ packet[0] = 24
  /\ packet[15] = 24
  /\ electrodes[currentlyMoving[1].y][currentlyMoving[1].x]

\* C31: a droplet in transit to the head of the fill queue is never on an
\* occupied static cell nor on a cell of the active piece that is already
\* materialized (an occupied piece cell whose fill target has left the
\* queue).
C31_DropletOffBlocks ==
  currentlyMoving # <<>> =>
    LET drop == currentlyMoving[1]
        row == drop.x
        col == gameSize.y - 1 - drop.y
        pos == droppingTetro.pos
        pieceCell ==
          /\ row - pos.y \in DOMAIN droppingTetro.shape
          /\ col - pos.x \in DOMAIN droppingTetro.shape[row - pos.y]
          /\ droppingTetro.shape[row - pos.y][col - pos.x]
        queued == \E i \in 1..Len(needFilling) : needFilling[i] = drop
    IN /\ ~currentBlocks[row][col]
       /\ ~(pieceCell /\ ~queued)

\* C32: with reservoirs TL and BL available, the frame loop running and
\* ticks accepted, filling does not stall.  Once init has run the
\* availability list is not empty, no fill tick reports a missing reservoir
\* or an empty path, and a droplet in transit is never on the head of the
\* queue.  The number of accepted fill ticks the head still needs is 1 + the
\* Manhattan distance from the drop cell of the closest reservoir (TL unless
\* BL is strictly closer) while no droplet is out, and the Manhattan distance
\* from the droplet (or from the drop cell of the dispensing reservoir)
\* otherwise: every accepted fill tick lowers it by exactly one, nothing else
\* changes it, and the head is removed by the tick that lowers it to zero.
\* Hence a non-empty queue always becomes empty.
C32_FillNeverStalls ==
  /\ [](LET square(a, b) == (a.x - b.x) * (a.x - b.x) + (a.y - b.y) * (a.y - b.y)
            chosen(cell) == IF square(cell, Vec(0, 6)) < square(cell, Vec(0, 1))
                            THEN "BL" ELSE "TL"
        IN /\ pc \in {"new", "cleared", "idle", "dispense"}
           /\ pc \in {"idle", "dispense"} => availableReservoirs = <<"TL", "BL">>
           /\ \A i \in 1..Len(log) :
                 log[i] \notin {"No available reservoir", "No path found"}
           /\ (needFilling # <<>> /\ currentlyMoving # <<>>) =>
                 currentlyMoving[1] # needFilling[1]
           /\ pc = "dispense" =>
                 needFilling # <<>> /\ dispensing[1].reservoir = chosen(needFilling[1]))
  /\ [][(needFilling # <<>> /\ pc \in {"idle", "dispense"}) =>
          LET abs(n) == IF n < 0 THEN -n ELSE n
              manhattan(a, b) == abs(a.x - b.x) + abs(a.y - b.y)
              square(a, b) == (a.x - b.x) * (a.x - b.x) + (a.y - b.y) * (a.y - b.y)
              dropCell(reservoir) == IF reservoir = "TL" THEN Vec(0, 1) ELSE Vec(0, 6)
              chosen(cell) == IF square(cell, dropCell("BL")) < square(cell, dropCell("TL"))
                              THEN "BL" ELSE "TL"
              ticksLeft(queue, drop, at, call) ==
                IF drop # <<>> THEN manhattan(drop[1], queue[1])
                ELSE IF at = "dispense"
                THEN manhattan(dropCell(call[1].reservoir), queue[1])
                ELSE 1 + manhattan(dropCell(chosen(queue[1])), queue[1])
              left == ticksLeft(needFilling, currentlyMoving, pc, dispensing)
              fillTickStep == pc = "idle" /\ log'[1] = "newTick"
          IN IF fillTickStep /\ left = 1
             THEN needFilling' = Tail(needFilling) /\ currentlyMoving' = <<>>
             ELSE /\ needFilling' = needFilling
                  /\ ticksLeft(needFilling', currentlyMoving', pc', dispensing') =
                       IF fillTickStep THEN left - 1 ELSE left]_vars
  /\ (needFilling # <<>>) ~> (needFilling = <<>>)

\* the four cells of the second piece have been filled
C32_Witness ==
  /\ pc = "idle"
  /\ spawned = 1
  /\ ~finished
  /\ needFilling = <<>>
  /\ currentlyMoving = <<>>
  /\ log = <<"newTick", "fillTick", "render", "transmit">>

(***************************************************************************)
(* The game with key events at any time and in any number, the frame loop  *)
(* running and ticks accepted.                                             *)
(***************************************************************************)
MaxHoldPieces == 1

HoldKinds == {"LEFT_CORNER"}

InitHold ==
  /\ Constructed(HoldKinds)
  /\ probe = [fn |-> "none"]

HoldTick == FrameTick(HoldKinds, MaxHoldPieces)

\* handleKeyPress: ArrowLeft / a, ArrowRight / d
HoldKeyMove(direction) ==
  /\ pc \in {"idle", "dispense"}
  /\ Becomes(setMovement(this, direction))
  /\ UNCHANGED <<keys, probe>>

HoldKeyLeft == HoldKeyMove("LEFT")

HoldKeyRight == HoldKeyMove("RIGHT")

\* handleKeyPress: r
HoldKeyRotate ==
  /\ pc \in {"idle", "dispense"}
  /\ Becomes([this EXCEPT !.aboutRotate = TRUE])
  /\ UNCHANGED <<keys, probe>>

NextHold ==
  \/ InitClear
  \/ InitPrime
  \/ HoldTick
  \/ FrameNoTick
  \/ DispenseStep
  \/ DispenseCleanup
  \/ DispenseReturn
  \/ HoldKeyLeft
  \/ HoldKeyRight
  \/ HoldKeyRotate

HoldTickDue == pc = "idle" /\ spawned < MaxHoldPieces

\* requestAnimationFrame calls loop again after every update, ticks are
\* accepted again and every timed wait of a dispense ends; key events come
\* whenever the player makes them.  Weak fairness of the frame and dispense
\* actions is written out as in SpecDropFair.
SpecHoldFair ==
  /\ InitHold
  /\ [][NextHold]_vars
  /\ WF_vars(InitClear)
  /\ WF_vars(InitPrime)
  /\ (<>[]DispenseStepDue => []<><<DispenseStep>>_vars)
  /\ (<>[]DispenseCleanupDue => []<><<DispenseCleanup>>_vars)
  /\ (<>[]DispenseReturnDue => []<><<DispenseReturn>>_vars)
  /\ (<>[]HoldTickDue => []<><<HoldTick>>_vars)

\* C33: with the frame loop running and ticks accepted, every spawned piece
\* eventually lands, whatever movement and rotate intents are submitted
\* between ticks: from any state in which the n-th piece is falling, a state
\* is reached in which it has been merged (the next piece is counted, or the
\* game has ended).
C33_EveryPieceLands ==
  \A n \in 0..(MaxHoldPieces - 1) :
     (spawned = n /\ ~finished) ~> (spawned > n \/ finished)

====
